---- MODULE Spec2Model ----
(***************************************************************************)
(* Device enrollment and credential caching of the makerspace IoT device   *)
(* clients (enhanced_device_client_with_app_deployment.py,                 *)
(* example_device_client.py), the device-id validation of device_config.py *)
(* and the broker session of the two clients and of the BitNet service     *)
(* (src/bitnet_runner.py), with the message history, the response policy   *)
(* and the response workers of that service.                               *)
(*                                                                         *)
(* Strings are sequences of one-character strings.  A PEM text is a record *)
(* [kind, owner, serial]; the empty text '' is EmptyPem.  File modes are   *)
(* 9-bit integers.                                                         *)
(***************************************************************************)
EXTENDS Integers, Sequences, FiniteSets, TLC

VARIABLES
    v_input,      \* argument handed to ConfigManager.validate_device_id
    v_result,     \* its return value: "pending", "true" or "false"
    pc,           \* position of the client process
    client,       \* which client class runs: "none", "enhanced", "example"
    arg,          \* the device id the process was started with
    self,         \* in-memory fields of the device object
    store,        \* cert_dir of the enhanced client (survives restarts)
    tmpdir,       \* directory made by tempfile.mkdtemp in the running example client
    outcome,      \* what main printed / returned for the run
    last,         \* record of the latest register_device call of the process
    dev,          \* session fields of the device / service object
    mqtt,         \* the paho client object and its connection to the broker
    wire,         \* calls handed to the paho client, in order
    call,         \* the operation the main thread runs or ran last
    workers,      \* response_worker threads of the BitNet service
    ev,           \* the step taken last
    config,       \* response_criteria of the BitNet service configuration
    message_history, \* MqttBitNetService.message_history
    appended,     \* messages appended to the history so far
    dispatch,     \* the response_worker of each message found eligible
    heard,        \* record of the latest on_mqtt_message call
    cwd,          \* working directory of the service process
    telemetry     \* telemetry threads and stop_telemetry event of the enhanced client

vars == <<v_input, v_result, pc, client, arg, self, store, tmpdir, outcome,
          last, dev, mqtt, wire, call, workers, ev,
          config, message_history, appended, dispatch, heard, cwd, telemetry>>

sessionVars == <<dev, mqtt, wire, call, workers, ev>>

enrollVars == <<pc, client, arg, self, store, tmpdir, outcome, last>>

validateVars == <<v_input, v_result>>

serviceVars == <<config, message_history, appended, dispatch, heard, cwd>>

----------------------------------------------------------------------------
(* Bounds of the model *)

\* longest run of 'a' put in front of a generated device id
MaxPad == 51
\* longest generated tail after the padding
MaxTail == 2
\* certificate serial numbers the issuer may hand out
MaxSerial == 2
\* calls the paho client is handed in one run
MaxWire == 5
\* response_worker threads in one run
MaxWorkers == 1
\* connect_mqtt / start calls in one run
MaxConnects == 2
\* disconnect / cleanup / stop calls in one run
MaxStops == 2
\* telemetry threads a run may start
MaxTelemetryThreads == 2
\* on_mqtt_message calls in a run that fills the history
MaxHistoryMessages == 102
\* on_mqtt_message calls in a run that looks at the response policy
MaxPolicyMessages == 1
\* on_mqtt_message calls in a run that follows the response workers
MaxDispatchMessages == 2
\* response_worker threads started in one run
MaxDispatches == 2

----------------------------------------------------------------------------
(* Characters *)

Lower == {"a","b","c","d","e","f","g","h","i","j","k","l","m",
          "n","o","p","q","r","s","t","u","v","w","x","y","z"}
Upper == {"A","B","C","D","E","F","G","H","I","J","K","L","M",
          "N","O","P","Q","R","S","T","U","V","W","X","Y","Z"}
Digit == {"0","1","2","3","4","5","6","7","8","9"}

\* the line feed character
LF == "\n"

\* the character class [a-zA-Z0-9_-] of the pattern
InClass(c) == c \in Lower \cup Upper \cup Digit \cup {"_", "-"}

\* re.match(r'^[a-zA-Z0-9_-]+$', s): '+' takes a non-empty prefix of class
\* characters; Python's '$' matches at the end of the string and also just
\* before a line feed that is the last character of the string.
re_match(s) ==
    \E n \in 1..Len(s) :
        /\ \A i \in 1..n : InClass(s[i])
        /\ \/ n = Len(s)
           \/ n = Len(s) - 1 /\ s[Len(s)] = LF

\* Python truthiness of the argument: None, 0 and '' are falsy
Truthy(x) ==
    CASE x.type = "none" -> FALSE
      [] x.type = "int"  -> x.int # 0
      [] x.type = "str"  -> Len(x.str) > 0
      [] OTHER           -> TRUE

\* ConfigManager.validate_device_id
validate_device_id(x) ==
    IF ~Truthy(x) \/ x.type # "str" THEN FALSE
    ELSE IF Len(x.str) < 3 \/ Len(x.str) > 50 THEN FALSE
    ELSE re_match(x.str)

Str(s) == [type |-> "str", str |-> s, int |-> 0]

----------------------------------------------------------------------------
(* Inputs of the validation check *)

RECURSIVE Pad(_)
Pad(k) == IF k = 0 THEN <<>> ELSE <<"a">> \o Pad(k - 1)

TailChars == {"b", "Z", "7", "_", "-", "!", " ", LF}

Tails == UNION {[1..n -> TailChars] : n \in 0..MaxTail}

ValInputs ==
    {Str(Pad(k) \o t) : k \in 0..MaxPad, t \in Tails}
    \cup {[type |-> "none", str |-> <<>>, int |-> 0],
          [type |-> "int",  str |-> <<>>, int |-> 0],
          [type |-> "int",  str |-> <<>>, int |-> 12345]}

BoolStr(b) == IF b THEN "true" ELSE "false"

----------------------------------------------------------------------------
(* Files, PEM texts and registration records *)

EmptyPem == [kind |-> "", owner |-> <<>>, serial |-> 0]

Pem(kind, id, n) == [kind |-> kind, owner |-> id, serial |-> n]

Oct(u, g, o) == u * 64 + g * 8 + o

\* a & ~b on file-mode bits
RECURSIVE AndNot(_, _)
AndNot(a, b) ==
    IF a = 0 THEN 0
    ELSE (a % 2) * (1 - (b % 2)) + 2 * AndNot(a \div 2, b \div 2)

\* the bits of a mode that grant anything to group or others
GroupOtherBits(m) == m % 64

NoFile == [exists |-> FALSE, data |-> EmptyPem, mode |-> 0]

\* open(path, 'w') followed by f.write(data): a new file gets mode
\* 0o666 & ~umask, an existing file is truncated and keeps its mode
WriteFile(f, data, um) ==
    [exists |-> TRUE, data |-> data,
     mode |-> IF f.exists THEN f.mode ELSE AndNot(Oct(6, 6, 6), um)]

\* os.chmod(path, m)
chmod(f, m) == [f EXCEPT !.mode = m]

\* the fields of the RegistrationResponse dataclass
RegKeys == {"success", "deviceId", "registration", "certificate"}

\* None
NoReg == [tag |-> "none", deviceId |-> <<>>, cert |-> EmptyPem, key |-> EmptyPem]

NoDoc == [keys |-> {}, deviceId |-> <<>>, cert |-> EmptyPem, key |-> EmptyPem]

\* RegistrationResponse(**data): a TypeError unless data has exactly the
\* dataclass fields; certificate_pem / private_key_pem read the nested
\* 'certificate' dict with '' as default
FromDict(doc) ==
    IF doc.keys = RegKeys
    THEN [ok |-> TRUE,
          reg |-> [tag |-> "registration", deviceId |-> doc.deviceId,
                   cert |-> doc.cert, key |-> doc.key]]
    ELSE [ok |-> FALSE, reg |-> NoReg]

\* dataclasses.asdict(registration_data), as written by json.dump
asdict(reg) ==
    [keys |-> RegKeys, deviceId |-> reg.deviceId, cert |-> reg.cert,
     key |-> reg.key]

NoRegFile == [exists |-> FALSE, doc |-> NoDoc]

EmptyStore ==
    [dir |-> FALSE, cert |-> NoFile, key |-> NoFile, ca |-> NoFile,
     reg |-> NoRegFile]

NoTmp == [exists |-> FALSE, mode |-> 0, cert |-> NoFile, key |-> NoFile,
          ca |-> NoFile]

----------------------------------------------------------------------------
(* What the certificate service may answer *)

\* bodies of a 200 answer to POST /register-device for device id
FullDoc(id, n) ==
    [keys |-> RegKeys, deviceId |-> id, cert |-> Pem("cert", id, n),
     key |-> Pem("key", id, n)]

NoPemDoc(id) ==
    [keys |-> RegKeys, deviceId |-> id, cert |-> EmptyPem, key |-> EmptyPem]

MissingFieldDoc(id) ==
    [keys |-> RegKeys \ {"registration"}, deviceId |-> id,
     cert |-> EmptyPem, key |-> EmptyPem]

OkBodies(id) ==
    {FullDoc(id, n) : n \in 1..MaxSerial}
    \cup {NoPemDoc(id), MissingFieldDoc(id)}

\* statuses other than 200 and 409 the service is seen to answer with
OtherStatuses == {400, 404, 500}

NoAnswer == [kind |-> "none", status |-> 0, doc |-> NoDoc, text |-> EmptyPem]

TransportFailure ==
    [kind |-> "exc", status |-> 0, doc |-> NoDoc, text |-> EmptyPem]

Answer(status, doc, text) ==
    [kind |-> "resp", status |-> status, doc |-> doc, text |-> text]

PostAnswers(id) ==
    {TransportFailure}
    \cup {Answer(200, d, EmptyPem) : d \in OkBodies(id)}
    \cup {Answer(s, NoDoc, EmptyPem) : s \in {409} \cup OtherStatuses}

CaPem == Pem("ca", <<>>, 1)

CaAnswers ==
    {TransportFailure, Answer(200, NoDoc, CaPem), Answer(200, NoDoc, EmptyPem),
     Answer(500, NoDoc, EmptyPem)}

\* the record GET /device/{id}/status returns for a registered device
StatusDoc(id) ==
    [keys |-> {"deviceId", "status"}, deviceId |-> id, cert |-> EmptyPem,
     key |-> EmptyPem]

StatusAnswers(id) ==
    {TransportFailure, Answer(200, StatusDoc(id), EmptyPem),
     Answer(404, NoDoc, EmptyPem), Answer(500, NoDoc, EmptyPem)}

\* the clients ask for the CA certificate only after a 200 to the POST,
\* and a status lookup can follow only a 409; in the other cases no answer
\* is drawn
CaAnswersAfter(post) ==
    IF post.kind = "resp" /\ post.status = 200 THEN CaAnswers ELSE {NoAnswer}

StatusAnswersAfter(post, id) ==
    IF post.kind = "resp" /\ post.status = 409 THEN StatusAnswers(id)
    ELSE {NoAnswer}

----------------------------------------------------------------------------
(* EnhancedMakerspaceIoTDevice: enrollment *)

\* the fields __init__ sets that enrollment reads
NewSelf(id) ==
    [device_id |-> id, registration_data |-> NoReg,
     ca_certificate_pem |-> EmptyPem, cert_files |-> FALSE]

NoSelf == NewSelf(<<>>)

Ok(reg) == [kind |-> "ok", reg |-> reg, err |-> ""]

Raise(err) == [kind |-> "error", reg |-> NoReg, err |-> err]

NoResult == [kind |-> "none", reg |-> NoReg, err |-> ""]

\* what one call of register_device did; answers not asked for stay
\* NoAnswer, sent lists the HTTP requests in the order they were made, and
\* offer is what the status endpoint holds for the device during the call,
\* whether or not the client asks for it
Call(variant, id, pre, s, st, tmp, result, post, ca, status, sent, wrote) ==
    [variant |-> variant, device_id |-> id, pre |-> pre, self |-> s,
     store |-> st, tmp |-> tmp, result |-> result, post |-> post, ca |-> ca,
     status |-> status, sent |-> sent, wrote |-> wrote, offer |-> NoAnswer]

POST_REGISTER == "POST /register-device"

GET_CA == "GET /ca-certificate"

GET_STATUS == "GET /device/{id}/status"

\* a negated existence check
mutant_certificates_exist_negated(st) ==
    ~(st.cert.exists /\ st.key.exists /\ st.ca.exists)

\* _certificates_exist
certificates_exist(st) == st.cert.exists /\ st.key.exists /\ st.ca.exists

\* _load_existing_registration: [ok, reg]
load_existing_registration(st) ==
    IF ~st.reg.exists THEN [ok |-> FALSE, reg |-> NoReg]
    ELSE FromDict(st.reg.doc)

\* _fetch_ca_certificate: the text on 200, '' on any other status and on
\* any exception
fetch_ca_certificate(ca) ==
    IF ca.kind = "resp" /\ ca.status = 200 THEN ca.text ELSE EmptyPem

\* _save_certificates (registration_data is set when it is called)
save_certificates(s, st, um) ==
    LET reg  == s.registration_data
        c1   == WriteFile(st.cert, reg.cert, um)
        k1   == WriteFile(st.key, reg.key, um)
        a1   == IF s.ca_certificate_pem # EmptyPem
                THEN WriteFile(st.ca, s.ca_certificate_pem, um)
                ELSE st.ca
    IN  [st EXCEPT !.cert = chmod(c1, Oct(6, 4, 4)),
                   !.key  = chmod(k1, Oct(6, 0, 0)),
                   !.ca   = IF a1.exists THEN chmod(a1, Oct(6, 4, 4)) ELSE a1]

\* the files _save_certificates opens for writing
saved_files(s) ==
    {"device.crt", "device.key"}
    \cup (IF s.ca_certificate_pem # EmptyPem THEN {"ca.crt"} ELSE {})

\* _save_registration_data
save_registration_data(s, st) ==
    IF s.registration_data = NoReg THEN st
    ELSE [st EXCEPT !.reg = [exists |-> TRUE,
                             doc |-> asdict(s.registration_data)]]

\* register_device, the branch for status 200
on_registered(s, st, um, post, ca) ==
    LET parsed == FromDict(post.doc)
        s1     == [s EXCEPT !.registration_data = parsed.reg]
        text   == fetch_ca_certificate(ca)
        s2     == IF text # EmptyPem
                  THEN [s1 EXCEPT !.ca_certificate_pem = text] ELSE s1
        st1    == save_certificates(s2, st, um)
        st2    == save_registration_data(s2, st1)
    IN  IF ~parsed.ok
        THEN Call("enhanced", s.device_id, st, s, st, NoTmp,
                  Raise("TypeError"), post, NoAnswer, NoAnswer,
                  <<POST_REGISTER>>, {})
        ELSE Call("enhanced", s.device_id, st, s2, st2, NoTmp,
                  Ok(s2.registration_data), post, ca, NoAnswer,
                  <<POST_REGISTER, GET_CA>>,
                  saved_files(s2) \cup {"registration.json"})

\* a 409 branch that returns self.registration_data instead of raising
mutant_on_conflict_no_raise(s, st, post) ==
    LET loaded == load_existing_registration(st)
        s1     == IF loaded.ok THEN [s EXCEPT !.registration_data = loaded.reg]
                  ELSE s
    IN  Call("enhanced", s.device_id, st, s1, st, NoTmp,
             Ok(s1.registration_data), post, NoAnswer, NoAnswer,
             <<POST_REGISTER>>, {})

\* register_device, the branch for status 409
on_conflict(s, st, post) ==
    LET loaded == load_existing_registration(st)
    IN  IF loaded.ok
        THEN Call("enhanced", s.device_id, st,
                  [s EXCEPT !.registration_data = loaded.reg], st, NoTmp,
                  Ok(loaded.reg), post, NoAnswer, NoAnswer,
                  <<POST_REGISTER>>, {})
        ELSE Call("enhanced", s.device_id, st, s, st, NoTmp,
                  Raise("Device already registered but cannot retrieve existing data"),
                  post, NoAnswer, NoAnswer, <<POST_REGISTER>>, {})

\* a failure branch that posts once more before giving up
mutant_on_failure_retry(s, st, post) ==
    Call("enhanced", s.device_id, st, s, st, NoTmp,
         Raise(IF post.kind = "exc" THEN "Network error during registration"
               ELSE "Registration failed with status"),
         post, NoAnswer, NoAnswer, <<POST_REGISTER, POST_REGISTER>>, {})

\* register_device, any other status and requests.RequestException
on_failure(s, st, post) ==
    Call("enhanced", s.device_id, st, s, st, NoTmp,
         Raise(IF post.kind = "exc" THEN "Network error during registration"
               ELSE "Registration failed with status"),
         post, NoAnswer, NoAnswer, <<POST_REGISTER>>, {})

\* register_device, from the POST on
post_registration(s, st, um, post, ca) ==
    CASE post.kind = "exc"                       -> on_failure(s, st, post)
      [] post.kind = "resp" /\ post.status = 200 -> on_registered(s, st, um, post, ca)
      [] post.kind = "resp" /\ post.status = 409 -> on_conflict(s, st, post)
      [] OTHER                                   -> on_failure(s, st, post)

\* register_device
register_device(s, st, um, post, ca) ==
    LET loaded == load_existing_registration(st)
    IN  IF certificates_exist(st) /\ loaded.ok
        THEN Call("enhanced", s.device_id, st,
                  [s EXCEPT !.registration_data = loaded.reg], st, NoTmp,
                  Ok(loaded.reg), NoAnswer, NoAnswer, NoAnswer, <<>>, {})
        ELSE post_registration(s, st, um, post, ca)

----------------------------------------------------------------------------
(* MakerspaceIoTDevice (example_device_client.py): enrollment *)

\* DEVICE_ID of main
DEVICE_ID == <<"t","e","s","t","-","d","e","v","i","c","e","-","0","0","1">>

\* response.json() of a registration answer, as the dict register_device
\* returns; indexing a key that is not there is a KeyError
ex_json(doc) ==
    [tag |-> "registration", deviceId |-> doc.deviceId, cert |-> doc.cert,
     key |-> doc.key]

\* response.json() of a status answer
ex_status_json(doc) ==
    [tag |-> "status", deviceId |-> doc.deviceId, cert |-> doc.cert,
     key |-> doc.key]

\* get_device_status, called from the 409 branch
ex_get_device_status(s, tmp, post, status) ==
    Call("example", s.device_id, EmptyStore, s, EmptyStore, tmp,
         IF status.kind = "exc" THEN Raise("requests.RequestException")
         ELSE IF status.status = 404 THEN Raise("Device not registered")
         ELSE IF status.status # 200 THEN Raise("Status check failed")
         ELSE Ok(ex_status_json(status.doc)),
         post, NoAnswer, status, <<POST_REGISTER, GET_STATUS>>, {})

\* _save_certificates with get_ca_certificate: the directory of mkdtemp is
\* 0o700; the files are written with the default mode and never chmod-ed
ex_save_certificates(s, um, post, ca) ==
    LET reg   == ex_json(post.doc)
        d0    == [exists |-> TRUE, mode |-> Oct(7, 0, 0),
                  cert |-> WriteFile(NoFile, reg.cert, um),
                  key  |-> WriteFile(NoFile, reg.key, um),
                  ca   |-> NoFile]
        caOk  == ca.kind = "resp" /\ ca.status = 200
        d1    == [d0 EXCEPT !.ca = WriteFile(NoFile, ca.text, um)]
    IN  IF caOk
        THEN Call("example", s.device_id, EmptyStore,
                  [s EXCEPT !.cert_files = TRUE], EmptyStore, d1, Ok(reg),
                  post, ca, NoAnswer, <<POST_REGISTER, GET_CA>>,
                  {"device_cert.pem", "device_key.pem", "ca_cert.pem"})
        ELSE Call("example", s.device_id, EmptyStore, s, EmptyStore, d0,
                  Raise(IF ca.kind = "exc" THEN "requests.RequestException"
                        ELSE "CA certificate download failed"),
                  post, ca, NoAnswer, <<POST_REGISTER, GET_CA>>,
                  {"device_cert.pem", "device_key.pem"})

\* register_device
ex_register_device(s, tmp, um, post, ca, status) ==
    IF post.kind = "exc"
    THEN Call("example", s.device_id, EmptyStore, s, EmptyStore, tmp,
              Raise("requests.RequestException"), post, NoAnswer,
              NoAnswer, <<POST_REGISTER>>, {})
    ELSE IF post.status = 409
    THEN ex_get_device_status(s, tmp, post, status)
    ELSE IF post.status # 200
    THEN Call("example", s.device_id, EmptyStore, s, EmptyStore, tmp,
              Raise("Registration failed"), post, NoAnswer, NoAnswer,
              <<POST_REGISTER>>, {})
    ELSE IF post.doc.keys # RegKeys
    THEN Call("example", s.device_id, EmptyStore, s, EmptyStore, tmp,
              Raise("KeyError"), post, NoAnswer, NoAnswer,
              <<POST_REGISTER>>, {})
    ELSE ex_save_certificates(s, um, post, ca)

----------------------------------------------------------------------------
(* The client process: main, the constructor, register_device, exit *)

NoCall ==
    Call("none", <<>>, EmptyStore, NoSelf, EmptyStore, NoTmp, NoResult,
         NoAnswer, NoAnswer, NoAnswer, <<>>, {})

NoOutcome == [msg |-> "", store0 |-> EmptyStore, attempted |-> FALSE]

\* device ids given on the command line of the enhanced client
MainArgs ==
    {<<"d","e","v","-","1">>, <<"d","e","v","_","2">>, <<"a","b">>,
     <<"d","e","v",LF>>, <<"d","!","v">>, Pad(51)}

\* file-creation masks a call may run under: 0o022 and 0o077
Umasks == {Oct(0, 2, 2), Oct(0, 7, 7)}

InitEnroll ==
    /\ pc = "idle"
    /\ client = "none"
    /\ arg = <<>>
    /\ self = NoSelf
    /\ store = EmptyStore
    /\ tmpdir = NoTmp
    /\ outcome = NoOutcome
    /\ last = NoCall

\* no validate_device_id call under test
InitValidateIdle ==
    /\ v_input = Str(<<>>)
    /\ v_result = "pending"

\* main of the enhanced client up to the device-id check: an id that fails
\* validate_device_id ends the run with "Invalid device ID" and return 1
EnhMainStart(a) ==
    /\ pc = "idle"
    /\ client' = "enhanced"
    /\ arg' = a
    /\ IF validate_device_id(Str(a))
       THEN /\ pc' = "validated"
            /\ outcome' = [msg |-> "running", store0 |-> store,
                           attempted |-> FALSE]
       ELSE /\ pc' = "exited"
            /\ outcome' = [msg |-> "Invalid device ID", store0 |-> store,
                           attempted |-> FALSE]
    /\ UNCHANGED <<self, store, tmpdir, last, validateVars, telemetry, sessionVars, serviceVars>>

\* main of the example client: the id is DEVICE_ID and is not validated
ExMainStart ==
    /\ pc = "idle"
    /\ client' = "example"
    /\ arg' = DEVICE_ID
    /\ pc' = "validated"
    /\ outcome' = [msg |-> "running", store0 |-> store, attempted |-> FALSE]
    /\ UNCHANGED <<self, store, tmpdir, last, validateVars, telemetry, sessionVars, serviceVars>>

\* __init__: the enhanced client makes cert_dir
Construct ==
    /\ pc = "validated"
    /\ pc' = "ready"
    /\ self' = NewSelf(arg)
    /\ store' = IF client = "enhanced" THEN [store EXCEPT !.dir = TRUE]
                ELSE store
    /\ UNCHANGED <<client, arg, tmpdir, outcome, last, validateVars, telemetry, sessionVars, serviceVars>>

\* one call of EnhancedMakerspaceIoTDevice.register_device, under
\* file-creation mask um, with the answers the service gives if asked
EnhRegisterDevice(um, post, ca, status) ==
    /\ pc = "ready"
    /\ client = "enhanced"
    /\ LET c == register_device(self, store, um, post, ca)
       IN  /\ last' = [c EXCEPT !.offer = status]
           /\ self' = c.self
           /\ store' = c.store
    /\ outcome' = [outcome EXCEPT !.attempted = TRUE]
    /\ UNCHANGED <<pc, client, arg, tmpdir, validateVars, telemetry, sessionVars, serviceVars>>

\* one call of MakerspaceIoTDevice.register_device
ExRegisterDevice(um, post, ca, status) ==
    /\ pc = "ready"
    /\ client = "example"
    /\ LET c == ex_register_device(self, tmpdir, um, post, ca, status)
       IN  /\ last' = [c EXCEPT !.offer = status]
           /\ self' = c.self
           /\ tmpdir' = c.tmp
    /\ outcome' = [outcome EXCEPT !.attempted = TRUE]
    /\ UNCHANGED <<pc, client, arg, store, validateVars, telemetry, sessionVars, serviceVars>>

\* the process ends.  cleanup of the example client removes the temporary
\* directory that cert_files names; a directory that a failed
\* _save_certificates left behind is referenced by no later process, and
\* tmpdir, the directory of the running process, is empty again
Exit ==
    /\ pc \in {"ready", "exited"}
    /\ pc' = "idle"
    /\ client' = "none"
    /\ arg' = <<>>
    /\ self' = NoSelf
    /\ outcome' = NoOutcome
    /\ tmpdir' = NoTmp
    /\ last' = NoCall
    /\ UNCHANGED <<store, validateVars, telemetry, sessionVars, serviceVars>>

----------------------------------------------------------------------------
(* The paho client as the programs use it.  The thread that loop_start     *)
(* starts runs the library's network loop: it delivers the broker's        *)
(* connection acknowledgment to on_connect, reports a lost connection to   *)
(* on_disconnect, and connects again by itself after a lost or refused     *)
(* connection until disconnect() is called or the thread is stopped.       *)

\* mqtt.Client(...): no socket, no network thread
NewMqtt ==
    [state |-> "new", sock |-> FALSE, loop |-> FALSE, pending |-> FALSE,
     lost |-> FALSE]

\* mqtt_client.connect(host, port, keepalive) that reached the broker: the
\* socket is open and the acknowledgment is awaited
mqtt_connect(m) ==
    [m EXCEPT !.state = "connecting", !.sock = TRUE, !.pending = TRUE,
              !.lost = FALSE]

\* mqtt_client.loop_start()
loop_start(m) == [m EXCEPT !.loop = TRUE]

\* mqtt_client.loop_stop()
loop_stop(m) == [m EXCEPT !.loop = FALSE]

\* mqtt_client.disconnect(): the library writes the DISCONNECT packet and
\* closes its socket
mqtt_disconnect(m) ==
    [m EXCEPT !.state = "disconnecting", !.pending = FALSE, !.sock = FALSE]

\* mqtt_client.is_connected()
is_connected(m) == m.state = "connected"

\* the library on receiving the acknowledgment, before it calls on_connect
handle_connack(m, rc) ==
    IF rc = 0 THEN [m EXCEPT !.state = "connected", !.pending = FALSE]
    ELSE [m EXCEPT !.pending = FALSE]

\* ssl: context.load_verify_locations(cafile) raises unless the file holds
\* a certificate
load_verify_locations(ca) == ca.exists /\ ca.data.kind = "ca"

\* ssl: context.load_cert_chain(certfile, keyfile) raises unless the files
\* hold a certificate and the private key that belongs to it
load_cert_chain(cert, key) ==
    /\ cert.exists /\ cert.data.kind = "cert"
    /\ key.exists /\ key.data.kind = "key"
    /\ key.data.owner = cert.data.owner
    /\ key.data.serial = cert.data.serial

----------------------------------------------------------------------------
(* Session operations of the three programs.  Each yields the new object   *)
(* fields, the new paho client, the calls handed to it and the result.     *)

NewDev == [mqtt_client |-> FALSE, is_connected |-> FALSE, running |-> FALSE]

SessOut(d, m, phase, result, handed) ==
    [dev |-> d, mqtt |-> m, phase |-> phase, result |-> result,
     handed |-> handed]

\* a connect_mqtt that calls connect() before looking at the credential
mutant_connect_mqtt_unchecked(s, st, d, m, tcp) ==
    LET d1 == [d EXCEPT !.mqtt_client = TRUE]
    IN  IF ~tcp THEN SessOut(d1, NewMqtt, "done", "false", <<"connect">>)
        ELSE SessOut(d1, loop_start(mqtt_connect(NewMqtt)), "wait", "none",
                     <<"connect">>)

\* EnhancedMakerspaceIoTDevice.connect_mqtt up to the wait loop; tcp tells
\* whether connect() reaches the broker or raises
connect_mqtt(s, st, d, m, tcp) ==
    LET d1 == [d EXCEPT !.mqtt_client = TRUE]
    IN  IF s.registration_data = NoReg
        THEN SessOut(d, m, "done", "raise", <<>>)
        ELSE IF ~certificates_exist(st)
        THEN SessOut(d, m, "done", "raise", <<>>)
        ELSE IF ~(load_verify_locations(st.ca)
                  /\ load_cert_chain(st.cert, st.key))
        THEN SessOut(d1, NewMqtt, "done", "false", <<>>)
        ELSE IF ~tcp
        THEN SessOut(d1, NewMqtt, "done", "false", <<"connect">>)
        ELSE SessOut(d1, loop_start(mqtt_connect(NewMqtt)), "wait", "none",
                     <<"connect">>)

\* MakerspaceIoTDevice.connect_mqtt up to time.sleep(2)
ex_connect_mqtt(s, tmp, d, m, tcp) ==
    LET d1 == [d EXCEPT !.mqtt_client = TRUE]
    IN  IF ~s.cert_files
        THEN SessOut(d, m, "done", "raise", <<>>)
        ELSE IF ~(load_cert_chain(tmp.cert, tmp.key)
                  /\ load_verify_locations(tmp.ca))
        THEN SessOut(d, m, "done", "raise", <<>>)
        ELSE IF ~tcp
        THEN SessOut(d1, NewMqtt, "done", "false", <<"connect">>)
        ELSE SessOut(d1, loop_start(mqtt_connect(NewMqtt)), "wait", "none",
                     <<"connect">>)

\* MqttBitNetService.start with the default configuration (use_tls false);
\* valid is the result of bitnet.validate_setup()
start(d, m, valid, tcp) ==
    LET d1 == [d EXCEPT !.mqtt_client = TRUE]
    IN  IF ~valid THEN SessOut(d, m, "done", "false", <<>>)
        ELSE IF ~tcp
        THEN SessOut(d1, NewMqtt, "done", "false", <<"connect">>)
        ELSE SessOut([d1 EXCEPT !.running = TRUE],
                     loop_start(mqtt_connect(NewMqtt)), "done", "true",
                     <<"connect">>)

\* publish_telemetry / publish_status of the enhanced client: result.rc of
\* mqtt_client.publish is 0 when the client has a socket
publish(d, m, kind) ==
    IF ~d.is_connected \/ ~d.mqtt_client
    THEN SessOut(d, m, "done", "false", <<>>)
    ELSE SessOut(d, m, "done", IF m.sock THEN "true" ELSE "false", <<kind>>)

\* publish_telemetry / publish_status of the example client
ex_publish(d, m, kind) ==
    IF ~d.mqtt_client
    THEN SessOut(d, m, "done", "raise", <<>>)
    ELSE SessOut(d, m, "done", "none", <<kind>>)

\* a publish_message that does not ask is_connected()
mutant_publish_message_unchecked(d, m, kind) ==
    IF d.mqtt_client
    THEN SessOut(d, m, "done", "none", <<kind>>)
    ELSE SessOut(d, m, "done", "not connected", <<>>)

\* MqttBitNetService.publish_message: returns nothing; logs
\* "MQTT client not connected" when it does not publish
publish_message(d, m, kind) ==
    IF d.mqtt_client /\ is_connected(m)
    THEN SessOut(d, m, "done", "none", <<kind>>)
    ELSE SessOut(d, m, "done", "not connected", <<>>)

\* an _on_connect that does not look at rc
mutant_on_connect_any_rc(d, m, rc) ==
    SessOut([d EXCEPT !.is_connected = TRUE], m, "done", "none",
            <<"subscribe">>)

\* EnhancedMakerspaceIoTDevice._on_connect
on_connect(d, m, rc) ==
    IF rc = 0
    THEN SessOut([d EXCEPT !.is_connected = TRUE], m, "done", "none",
                 <<"subscribe">>)
    ELSE SessOut(d, m, "done", "none", <<>>)

\* MakerspaceIoTDevice._on_mqtt_connect
ex_on_mqtt_connect(d, m, rc) ==
    IF rc = 0 THEN SessOut(d, m, "done", "none", <<"subscribe">>)
    ELSE SessOut(d, m, "done", "none", <<>>)

\* MqttBitNetService.on_mqtt_connect: subscribe, then the presence message
on_mqtt_connect(d, m, rc) ==
    IF rc = 0
    THEN SessOut(d, m, "done", "none",
                 <<"subscribe">> \o publish_message(d, m, "presence").handed)
    ELSE SessOut(d, m, "done", "none", <<>>)

\* EnhancedMakerspaceIoTDevice._on_disconnect
on_disconnect(d) == [d EXCEPT !.is_connected = FALSE]

\* EnhancedMakerspaceIoTDevice.disconnect
disconnect(d, m) ==
    IF d.mqtt_client
    THEN SessOut([d EXCEPT !.is_connected = FALSE],
                 mqtt_disconnect(loop_stop(m)), "done", "none", <<>>)
    ELSE SessOut(d, m, "done", "none", <<>>)

\* MakerspaceIoTDevice.cleanup
cleanup(d, m) ==
    IF d.mqtt_client
    THEN SessOut(d, mqtt_disconnect(loop_stop(m)), "done", "none", <<>>)
    ELSE SessOut(d, m, "done", "none", <<>>)

\* MqttBitNetService.stop up to time.sleep(1)
stop_begin(d, m) ==
    LET d1 == [d EXCEPT !.running = FALSE]
    IN  IF d.mqtt_client
        THEN SessOut(d1, m, "grace", "none",
                     publish_message(d1, m, "goodbye").handed)
        ELSE SessOut(d1, m, "done", "none", <<>>)

\* MqttBitNetService.stop after time.sleep(1)
stop_end(d, m) ==
    SessOut(d, mqtt_disconnect(loop_stop(m)), "done", "none", <<>>)

----------------------------------------------------------------------------
(* The session: main thread, network-loop thread and response workers *)

\* what the program itself takes for "connected": the is_connected field
\* in the enhanced client, mqtt_client.is_connected() elsewhere
SessionConnected ==
    IF client = "enhanced" THEN dev.is_connected ELSE is_connected(mqtt)

NoSessCall ==
    [op |-> "none", phase |-> "done", result |-> "none", handed |-> <<>>,
     connected0 |-> FALSE, acked |-> FALSE,
     pre |-> [dev |-> NewDev, mqtt |-> NewMqtt], connects |-> 0, stops |-> 0]

\* the record of an operation the main thread starts now; pre keeps the
\* object and the paho client as a stop / disconnect / cleanup found them
SessCall(op, o) ==
    [op |-> op, phase |-> o.phase, result |-> o.result, handed |-> o.handed,
     connected0 |-> SessionConnected, acked |-> FALSE,
     pre |-> IF op = "stop" THEN [dev |-> dev, mqtt |-> mqtt]
             ELSE NoSessCall.pre,
     connects |-> call.connects + (IF op = "connect_mqtt" THEN 1 ELSE 0),
     stops |-> call.stops + (IF op = "stop" /\ o.phase = "done" THEN 1 ELSE 0)]

Event(kind, rc) == [kind |-> kind, rc |-> rc]

\* acknowledgment codes: 0 accepts, 5 refuses (not authorised)
AckCodes == {0, 5}

PublishKinds == {"telemetry", "status"}

WorkerIds == 1..MaxWorkers

InitSessionIdle ==
    /\ dev = NewDev
    /\ mqtt = NewMqtt
    /\ wire = <<>>
    /\ call = NoSessCall
    /\ workers = [w \in WorkerIds |-> "none"]
    /\ ev = Event("none", 0)
    /\ telemetry = [threads |-> <<>>, stop |-> FALSE]

\* the main thread is between two calls
MainIdle == pc = "session" /\ call.phase = "done"

\* a new paho client is made only when no network thread of an earlier one
\* is alive
MayConnect ==
    /\ MainIdle
    /\ ~mqtt.loop
    /\ call.connects < MaxConnects
    /\ Len(wire) < MaxWire

EnhConnectMqtt(tcp) ==
    /\ MayConnect
    /\ client = "enhanced"
    /\ LET o == connect_mqtt(self, store, dev, mqtt, tcp)
       IN  /\ dev' = o.dev
           /\ mqtt' = o.mqtt
           /\ wire' = wire \o o.handed
           /\ call' = SessCall("connect_mqtt", o)
    /\ ev' = Event("connect_mqtt", 0)
    /\ UNCHANGED <<workers, enrollVars, validateVars, telemetry, serviceVars>>

\* the wait loop of connect_mqtt ends, by is_connected or by the 10 s
\* timeout, and the call returns self.is_connected
EnhConnectReturn ==
    /\ pc = "session"
    /\ client = "enhanced"
    /\ call.op = "connect_mqtt"
    /\ call.phase = "wait"
    /\ call' = [call EXCEPT !.phase = "done",
                            !.result = IF dev.is_connected THEN "true"
                                       ELSE "false"]
    /\ ev' = Event("connect_return", 0)
    /\ UNCHANGED <<dev, mqtt, wire, workers, enrollVars, validateVars, telemetry, serviceVars>>

ExConnectMqtt(tcp) ==
    /\ MayConnect
    /\ client = "example"
    /\ LET o == ex_connect_mqtt(self, tmpdir, dev, mqtt, tcp)
       IN  /\ dev' = o.dev
           /\ mqtt' = o.mqtt
           /\ wire' = wire \o o.handed
           /\ call' = SessCall("connect_mqtt", o)
    /\ ev' = Event("connect_mqtt", 0)
    /\ UNCHANGED <<workers, enrollVars, validateVars, telemetry, serviceVars>>

\* time.sleep(2) of the example client's connect_mqtt is over: return True
ExConnectReturn ==
    /\ pc = "session"
    /\ client = "example"
    /\ call.op = "connect_mqtt"
    /\ call.phase = "wait"
    /\ call' = [call EXCEPT !.phase = "done", !.result = "true"]
    /\ ev' = Event("connect_return", 0)
    /\ UNCHANGED <<dev, mqtt, wire, workers, enrollVars, validateVars, telemetry, serviceVars>>

BitnetStart(valid, tcp) ==
    /\ MayConnect
    /\ client = "bitnet"
    /\ LET o == start(dev, mqtt, valid, tcp)
       IN  /\ dev' = o.dev
           /\ mqtt' = o.mqtt
           /\ wire' = wire \o o.handed
           /\ call' = SessCall("connect_mqtt", o)
    /\ ev' = Event("connect_mqtt", 0)
    /\ UNCHANGED <<workers, enrollVars, validateVars, telemetry, serviceVars>>

EnhPublish(kind) ==
    /\ MainIdle
    /\ client = "enhanced"
    /\ Len(wire) < MaxWire
    /\ LET o == publish(dev, mqtt, kind)
       IN  /\ wire' = wire \o o.handed
           /\ call' = SessCall("publish", o)
    /\ ev' = Event("publish", 0)
    /\ UNCHANGED <<dev, mqtt, workers, enrollVars, validateVars, telemetry, serviceVars>>

ExPublish(kind) ==
    /\ MainIdle
    /\ client = "example"
    /\ Len(wire) < MaxWire
    /\ LET o == ex_publish(dev, mqtt, kind)
       IN  /\ wire' = wire \o o.handed
           /\ call' = SessCall("publish", o)
    /\ ev' = Event("publish", 0)
    /\ UNCHANGED <<dev, mqtt, workers, enrollVars, validateVars, telemetry, serviceVars>>

\* send_manual_message
BitnetSendManual ==
    /\ MainIdle
    /\ client = "bitnet"
    /\ Len(wire) < MaxWire
    /\ LET o == publish_message(dev, mqtt, "manual")
       IN  /\ wire' = wire \o o.handed
           /\ call' = SessCall("publish", o)
    /\ ev' = Event("publish", 0)
    /\ UNCHANGED <<dev, mqtt, workers, enrollVars, validateVars, telemetry, serviceVars>>

\* a start_telemetry_loop that does not ask whether a loop is running
mutant_start_telemetry_loop_unguarded(t) ==
    [threads |-> Append(t.threads, "check"), stop |-> FALSE]

\* EnhancedMakerspaceIoTDevice.start_telemetry_loop: telemetry_thread is the
\* thread started last; a thread is alive until it leaves _telemetry_loop
start_telemetry_loop(t) ==
    IF t.threads # <<>> /\ t.threads[Len(t.threads)] # "exited"
    THEN t
    ELSE [threads |-> Append(t.threads, "check"), stop |-> FALSE]

\* main thread: start_telemetry_loop
EnhStartTelemetry ==
    /\ MainIdle
    /\ client = "enhanced"
    /\ Len(telemetry.threads) < MaxTelemetryThreads
    /\ telemetry' = start_telemetry_loop(telemetry)
    /\ call' = SessCall("start_telemetry",
                        SessOut(dev, mqtt, "done",
                                IF telemetry' = telemetry THEN "running"
                                ELSE "started", <<>>))
    /\ ev' = Event("start_telemetry", 0)
    /\ UNCHANGED <<dev, mqtt, wire, workers, enrollVars, validateVars,
                   serviceVars>>

\* telemetry thread t, one step of _telemetry_loop.  At "check" it reads
\* stop_telemetry and, when the event is clear, enters publish_telemetry,
\* which returns False without a client or with is_connected False; at
\* "publishing" it calls mqtt_client.publish, whose rc is 0 when the client
\* has a socket; at "waiting" stop_telemetry.wait(interval) returns True
\* when the event is set and False when the interval is over
TelemetryStep(t) ==
    /\ pc = "session"
    /\ t \in DOMAIN telemetry.threads
    /\ LET at == telemetry.threads[t]
           to(p) == [telemetry EXCEPT !.threads[t] = p]
       IN  CASE at = "check" ->
                  /\ telemetry' =
                        IF telemetry.stop THEN to("exited")
                        ELSE IF ~dev.is_connected \/ ~dev.mqtt_client
                             THEN to("waiting")
                             ELSE to("publishing")
                  /\ ev' = Event("telemetry_check", t)
                  /\ UNCHANGED wire
              [] at = "publishing" ->
                  /\ telemetry' = to("waiting")
                  /\ wire' = wire \o <<"telemetry">>
                  /\ ev' = Event("telemetry_publish",
                                 IF mqtt.sock THEN 0 ELSE 4)
              [] at = "waiting" ->
                  /\ telemetry.stop \/ Len(wire) < MaxWire
                  /\ telemetry' = IF telemetry.stop THEN to("exited")
                                  ELSE to("check")
                  /\ ev' = Event("telemetry_wait", t)
                  /\ UNCHANGED wire
              [] OTHER -> FALSE
    /\ UNCHANGED <<dev, mqtt, call, workers, enrollVars, validateVars,
                   serviceVars>>

\* main thread: disconnect() up to the return of stop_telemetry_loop's
\* telemetry_thread.join(timeout=5)
EnhStopTelemetry ==
    /\ MainIdle
    /\ client = "enhanced"
    /\ call.stops < MaxStops
    /\ telemetry.threads # <<>>
    /\ telemetry' = [telemetry EXCEPT !.stop = TRUE]
    /\ call' = SessCall("stop", SessOut(dev, mqtt, "join", "none", <<>>))
    /\ ev' = Event("stop_telemetry", 0)
    /\ UNCHANGED <<dev, mqtt, wire, workers, enrollVars, validateVars,
                   serviceVars>>

\* main thread: disconnect(), from the start when no telemetry thread was
\* ever made, else after the join returned (the thread ended or the five
\* seconds are over)
EnhDisconnect ==
    /\ pc = "session"
    /\ client = "enhanced"
    /\ \/ call.phase = "done" /\ call.stops < MaxStops
          /\ telemetry.threads = <<>>
       \/ call.op = "stop" /\ call.phase = "join"
    /\ LET o == disconnect(dev, mqtt)
       IN  /\ dev' = o.dev
           /\ mqtt' = o.mqtt
           /\ call' = SessCall("stop", o)
    /\ ev' = Event("stop", 0)
    /\ UNCHANGED <<wire, workers, enrollVars, validateVars, telemetry, serviceVars>>

ExCleanup ==
    /\ MainIdle
    /\ client = "example"
    /\ call.stops < MaxStops
    /\ LET o == cleanup(dev, mqtt)
       IN  /\ dev' = o.dev
           /\ mqtt' = o.mqtt
           /\ call' = SessCall("stop", o)
    /\ ev' = Event("stop", 0)
    /\ UNCHANGED <<wire, workers, enrollVars, validateVars, telemetry, serviceVars>>

\* stop, called by signal_handler, by the finally block of run_forever or
\* by the send command, up to its time.sleep(1)
BitnetStopBegin ==
    /\ MainIdle
    /\ client = "bitnet"
    /\ call.stops < MaxStops
    /\ Len(wire) < MaxWire
    /\ LET o == stop_begin(dev, mqtt)
       IN  /\ dev' = o.dev
           /\ mqtt' = o.mqtt
           /\ wire' = wire \o o.handed
           /\ call' = SessCall("stop", o)
    /\ ev' = Event("stop", 0)
    /\ UNCHANGED <<workers, enrollVars, validateVars, telemetry, serviceVars>>

\* the rest of stop: loop_stop() and disconnect()
BitnetStopEnd ==
    /\ pc = "session"
    /\ client = "bitnet"
    /\ call.op = "stop"
    /\ call.phase = "grace"
    /\ LET o == stop_end(dev, mqtt)
       IN  /\ dev' = o.dev
           /\ mqtt' = o.mqtt
    /\ call' = [call EXCEPT !.phase = "done", !.stops = @ + 1]
    /\ ev' = Event("stop_end", 0)
    /\ UNCHANGED <<wire, workers, enrollVars, validateVars, telemetry, serviceVars>>

\* network thread: the broker's acknowledgment arrives and the program's
\* connect callback runs; after a refusal the library closes the socket and
\* calls on_disconnect
Ack(rc) ==
    /\ pc = "session"
    /\ mqtt.loop
    /\ mqtt.pending
    /\ Len(wire) + 2 <= MaxWire
    /\ LET m1 == handle_connack(mqtt, rc)
           o  == CASE client = "enhanced" -> on_connect(dev, m1, rc)
                   [] client = "example"  -> ex_on_mqtt_connect(dev, m1, rc)
                   [] OTHER               -> on_mqtt_connect(dev, m1, rc)
       IN  /\ dev' = IF rc # 0 /\ client = "enhanced"
                     THEN on_disconnect(o.dev) ELSE o.dev
           /\ mqtt' = IF rc = 0 THEN m1 ELSE [m1 EXCEPT !.sock = FALSE]
           /\ wire' = wire \o o.handed
    /\ call' = IF call.phase = "wait" /\ rc = 0
               THEN [call EXCEPT !.acked = TRUE] ELSE call
    /\ ev' = Event("ack", rc)
    /\ UNCHANGED <<workers, enrollVars, validateVars, telemetry, serviceVars>>

\* network thread: the established connection is lost (network failure or
\* the broker closes it).  The enhanced client's _on_disconnect runs; the
\* BitNet service sets no disconnect callback.  Whether is_connected() of
\* the library still answers True until it connects again depends on the
\* library version: keep says it does
NetworkLoss(keep) ==
    /\ pc = "session"
    /\ mqtt.loop
    /\ mqtt.sock
    /\ mqtt.state = "connected"
    /\ mqtt' = [mqtt EXCEPT !.sock = FALSE, !.pending = FALSE,
                            !.lost = TRUE,
                            !.state = IF keep THEN @ ELSE "lost"]
    /\ dev' = IF client = "enhanced" THEN on_disconnect(dev) ELSE dev
    /\ ev' = Event("loss", 0)
    /\ UNCHANGED <<wire, call, workers, enrollVars, validateVars, telemetry, serviceVars>>

\* network thread: the loop started by loop_start connects again after a
\* lost or refused connection, unless disconnect() was called
LoopReconnect(tcp) ==
    /\ pc = "session"
    /\ mqtt.loop
    /\ ~mqtt.sock
    /\ mqtt.state # "disconnecting"
    /\ mqtt' = [mqtt EXCEPT !.state = "connecting", !.sock = tcp,
                            !.pending = tcp]
    /\ ev' = Event("reconnect", IF tcp THEN 0 ELSE 1)
    /\ UNCHANGED <<dev, wire, call, workers, enrollVars, validateVars, telemetry, serviceVars>>

\* network thread: on_mqtt_message gets a message the service answers, and
\* _handle_response starts a response_worker thread (w is the next thread
\* not yet started)
OnMessage(w) ==
    /\ pc = "session"
    /\ client = "bitnet"
    /\ mqtt.loop /\ mqtt.sock /\ is_connected(mqtt)
    /\ workers[w] = "none"
    /\ \A v \in WorkerIds : v < w => workers[v] # "none"
    /\ workers' = [workers EXCEPT ![w] = "generating"]
    /\ ev' = Event("message", w)
    /\ UNCHANGED <<dev, mqtt, wire, call, enrollVars, validateVars, telemetry, serviceVars>>

\* response_worker: generate_response returns (ok: a non-empty response)
WorkerGenerated(w, ok) ==
    /\ pc = "session"
    /\ workers[w] = "generating"
    /\ workers' = [workers EXCEPT ![w] = IF ok THEN "delay" ELSE "done"]
    /\ ev' = Event("generated", w)
    /\ UNCHANGED <<dev, mqtt, wire, call, enrollVars, validateVars, telemetry, serviceVars>>

\* response_worker: time.sleep(delay) is over, publish_message(response_msg)
WorkerPublish(w) ==
    /\ pc = "session"
    /\ workers[w] = "delay"
    /\ Len(wire) < MaxWire
    /\ LET o == publish_message(dev, mqtt, "response")
       IN  /\ wire' = wire \o o.handed
           /\ workers' = [workers EXCEPT ![w] = "done"]
    /\ ev' = Event("worker_publish", w)
    /\ UNCHANGED <<dev, mqtt, call, enrollVars, validateVars, telemetry, serviceVars>>

----------------------------------------------------------------------------
(* Messages, history and response policy of the BitNet service *)

\* the device id of the service (_generate_device_id) and of another sender
OWN_ID == "bitnet-1"
PEER_ID == "sensor-7"

\* len(self.message_history) > 100 in on_mqtt_message
HISTORY_CAP == 100
\* context[-3:] in _generate_prompt
PROMPT_CONTEXT == 3

\* str.lower() on the characters of the model
lower(s) ==
    LET UpperSeq == <<"A","B","C","D","E","F","G","H","I","J","K","L","M",
                      "N","O","P","Q","R","S","T","U","V","W","X","Y","Z">>
        LowerSeq == <<"a","b","c","d","e","f","g","h","i","j","k","l","m",
                      "n","o","p","q","r","s","t","u","v","w","x","y","z">>
    IN  [i \in 1..Len(s) |->
            IF s[i] \in Upper
            THEN LowerSeq[CHOOSE k \in 1..26 : UpperSeq[k] = s[i]]
            ELSE s[i]]

\* a in b of two strings: a is a substring of b
str_in(a, b) ==
    \E i \in 0..(Len(b) - Len(a)) : SubSeq(b, i + 1, i + Len(a)) = a

\* a decoded payload: the keys of the JSON object and their values; json
\* says whether json.loads gave an object at all
Payload(keys, device_id, message_type, content) ==
    [json |-> TRUE, keys |-> keys, device_id |-> device_id,
     message_type |-> message_type, content |-> content]

NotJson ==
    [json |-> FALSE, keys |-> {}, device_id |-> "", message_type |-> "",
     content |-> <<>>]

AllKeys == {"device_id", "content", "message_type"}

\* an MqttMessage object; id stands for the identity of the object
Message(id, device_id, message_type, content) ==
    [id |-> id, device_id |-> device_id, message_type |-> message_type,
     content |-> content]

\* a from_dict that makes a message of any payload
mutant_from_dict_lenient(data, id) ==
    [raised |-> FALSE,
     message |-> Message(id, data.device_id, "general", data.content)]

\* MqttMessage.from_dict: KeyError without device_id or content,
\* message_type defaults to "general"
from_dict(data, id) ==
    IF ~data.json \/ ~({"device_id", "content"} \subseteq data.keys)
    THEN [raised |-> TRUE, message |-> Message(0, "", "", <<>>)]
    ELSE [raised |-> FALSE,
          message |-> Message(id, data.device_id,
                              IF "message_type" \in data.keys
                              THEN data.message_type ELSE "general",
                              data.content)]

\* the response_criteria section of the configuration: has is the set of
\* keys present; probability is in hundredths
Criteria(has, message_types, content_filters, probability, default_respond) ==
    [has |-> has, message_types |-> message_types,
     content_filters |-> content_filters, probability |-> probability,
     default_respond |-> default_respond]

CriteriaKeys == {"message_types", "content_filters", "probability",
                 "default_respond"}

\* response_criteria of create_default_config
DefaultCriteria ==
    Criteria(CriteriaKeys, {"general", "question"}, <<>>, 100, TRUE)

\* response_criteria.get(key, default)
get(c, key, default) == IF key \in c.has THEN c[key] ELSE default

\* some filter of c is in the content of message, both in lower case
filter_hit(c, message) ==
    \E k \in 1..Len(get(c, "content_filters", <<>>)) :
        str_in(lower(get(c, "content_filters", <<>>)[k]),
               lower(message.content))

\* the probability gate and the default of c for the draw u
gate(c, u) ==
    IF get(c, "probability", 100) < 100 /\ u > get(c, "probability", 100)
    THEN [respond |-> FALSE, drew |-> TRUE]
    ELSE [respond |-> get(c, "default_respond", TRUE),
          drew |-> get(c, "probability", 100) < 100]

\* a _should_respond without the check of the sender
mutant_should_respond_no_self_check(c, own, message, u) ==
    IF message.message_type \notin get(c, "message_types", {"general"})
    THEN [respond |-> FALSE, drew |-> FALSE]
    ELSE IF filter_hit(c, message) THEN [respond |-> TRUE, drew |-> FALSE]
    ELSE gate(c, u)

\* a _should_respond without the check of the message type
mutant_should_respond_no_type_check(c, own, message, u) ==
    IF message.device_id = own THEN [respond |-> FALSE, drew |-> FALSE]
    ELSE IF filter_hit(c, message) THEN [respond |-> TRUE, drew |-> FALSE]
    ELSE gate(c, u)

\* a _should_respond that draws before it looks at the content filters
mutant_should_respond_draw_first(c, own, message, u) ==
    IF message.device_id = own THEN [respond |-> FALSE, drew |-> FALSE]
    ELSE IF message.message_type \notin get(c, "message_types", {"general"})
    THEN [respond |-> FALSE, drew |-> FALSE]
    ELSE IF ~gate(c, u).respond /\ gate(c, u).drew THEN gate(c, u)
    ELSE IF filter_hit(c, message)
    THEN [respond |-> TRUE, drew |-> gate(c, u).drew]
    ELSE gate(c, u)

\* a _should_respond that looks at the content filters first
mutant_should_respond_filter_first(c, own, message, u) ==
    IF filter_hit(c, message) THEN [respond |-> TRUE, drew |-> FALSE]
    ELSE IF message.device_id = own THEN [respond |-> FALSE, drew |-> FALSE]
    ELSE IF message.message_type \notin get(c, "message_types", {"general"})
    THEN [respond |-> FALSE, drew |-> FALSE]
    ELSE gate(c, u)

\* MqttBitNetService._should_respond; u is what random.random() returns,
\* in hundredths; drew says whether random.random() was called
should_respond(c, own, message, u) ==
    LET allowed_types == get(c, "message_types", {"general"})
        content_filters == get(c, "content_filters", <<>>)
        response_probability == get(c, "probability", 100)
        default_respond == get(c, "default_respond", TRUE)
    IN  IF message.device_id = own
        THEN [respond |-> FALSE, drew |-> FALSE]
        ELSE IF message.message_type \notin allowed_types
        THEN [respond |-> FALSE, drew |-> FALSE]
        ELSE IF \E k \in 1..Len(content_filters) :
                    str_in(lower(content_filters[k]), lower(message.content))
        THEN [respond |-> TRUE, drew |-> FALSE]
        ELSE IF response_probability < 100 /\ u > response_probability
        THEN [respond |-> FALSE, drew |-> TRUE]
        ELSE [respond |-> default_respond,
              drew |-> response_probability < 100]

\* an append that never evicts
mutant_history_append_no_evict(h, message) == Append(h, message)

\* an append that evicts the newest message, pop() for pop(0)
mutant_history_append_pop_last(h, message) ==
    IF Len(h) + 1 > HISTORY_CAP THEN h ELSE Append(h, message)

\* self.message_history.append(message), then pop(0) above the capacity
history_append(h, message) ==
    LET a == Append(h, message)
    IN  IF Len(a) > HISTORY_CAP THEN Tail(a) ELSE a

\* list[:-1]
all_but_last(h) == IF Len(h) = 0 THEN h ELSE SubSeq(h, 1, Len(h) - 1)

\* list[-3:]
last_three(h) ==
    IF Len(h) <= PROMPT_CONTEXT THEN h
    ELSE SubSeq(h, Len(h) - PROMPT_CONTEXT + 1, Len(h))

\* _generate_prompt with the default template: the sender and content of
\* the message and "sender: content" of the last three of context
generate_prompt(message, context) ==
    [device_id |-> message.device_id, content |-> message.content,
     context |-> [i \in 1..Len(last_three(context)) |->
                    [device_id |-> last_three(context)[i].device_id,
                     content |-> last_three(context)[i].content]]]

----------------------------------------------------------------------------
(* Response generation and dispatch of the BitNet service *)

\* the Python value None
PyNone == [type |-> "none", str |-> <<>>, int |-> 0]

\* str.strip(): what lies between the first and the last character that
\* is no white space
strip(s) ==
    LET inked == {i \in 1..Len(s) : s[i] \notin {" ", LF}}
    IN  IF inked = {} THEN <<>>
        ELSE SubSeq(s, CHOOSE i \in inked : \A j \in inked : i <= j,
                       CHOOSE i \in inked : \A j \in inked : i >= j)

\* one run of the inference script as generate_response meets it: valid is
\* the result of validate_setup(), how is "returned", "timeout"
\* (subprocess.TimeoutExpired after 300 s) or "error" (another exception)
Run(valid, how, returncode, stdout) ==
    [valid |-> valid, how |-> how, returncode |-> returncode,
     stdout |-> stdout]

\* BitNetInference.generate_response: value is what it returns, invoked
\* says whether subprocess.run was called
generate_response(run) ==
    IF ~run.valid THEN [value |-> PyNone, invoked |-> 0]
    ELSE IF run.how # "returned" THEN [value |-> PyNone, invoked |-> 1]
    ELSE IF run.returncode = 0
    THEN [value |-> Str(strip(run.stdout)), invoked |-> 1]
    ELSE [value |-> PyNone, invoked |-> 1]

\* the response_worker thread _handle_response starts for message; seen is
\* message_history[:-1] as on_mqtt_message left the history at that moment
NewDispatch(message, h) ==
    [message |-> message, seen |-> all_but_last(h), state |-> "started",
     context |-> <<>>,
     prompt |-> [device_id |-> "", content |-> <<>>, context |-> <<>>],
     run |-> Run(FALSE, "none", 0, <<>>), calls |-> 0,
     original_cwd |-> "", response |-> PyNone, published |-> <<>>,
     linked |-> FALSE]

\* MqttBitNetService.on_mqtt_message: history and appended after the call,
\* started holds the response_worker it started, if any
on_mqtt_message(c, h, n, data, u) ==
    LET parsed == from_dict(data, n + 1)
        h1 == history_append(h, parsed.message)
        r == should_respond(c, OWN_ID, parsed.message, u)
    IN  IF parsed.raised
        THEN [history |-> h, appended |-> n, started |-> <<>>,
              raised |-> TRUE, respond |-> FALSE, drew |-> FALSE]
        ELSE [history |-> h1, appended |-> n + 1,
              started |-> IF r.respond
                          THEN <<NewDispatch(parsed.message, h1)>>
                          ELSE <<>>,
              raised |-> FALSE, respond |-> r.respond, drew |-> r.drew]

\* a response_worker that goes to its delay without waiting for the
\* generator
mutant_worker_prompt_no_wait(d, h) ==
    [d EXCEPT !.context = all_but_last(h),
              !.prompt = generate_prompt(d.message, all_but_last(h)),
              !.response = Str(<<"o","k">>),
              !.state = "delay"]

\* response_worker up to the generator call: the prompt is built from
\* self.message_history[:-1] as the thread finds it
worker_prompt(d, h) ==
    [d EXCEPT !.context = all_but_last(h),
              !.prompt = generate_prompt(d.message, all_but_last(h)),
              !.state = "generating"]

\* a response_worker that goes on to publish whatever generate_response
\* returned
mutant_worker_generated_unchecked(d, run) ==
    [d EXCEPT !.run = run, !.calls = @ + generate_response(run).invoked,
              !.response = generate_response(run).value,
              !.state = "delay"]

\* response_worker after generate_response returned: a truthy response
\* goes on to the delay, anything else ends the thread with a warning
worker_generated(d, run) ==
    LET g == generate_response(run)
    IN  [d EXCEPT !.run = run, !.calls = @ + g.invoked,
                  !.response = g.value,
                  !.state = IF Truthy(g.value) THEN "delay" ELSE "done"]

\* response_worker after time.sleep(delay): publish_message(response_msg);
\* o is what publish_message did, up whether the client object exists and
\* its is_connected() answered True at that moment
worker_publish(d, o, up) ==
    [d EXCEPT !.published =
                  IF o.handed # <<>>
                  THEN <<Message(0, OWN_ID, "response", d.response.str)>>
                  ELSE <<>>,
              !.linked = up,
              !.state = "done"]

----------------------------------------------------------------------------
(* Steps of the network thread and of the response workers *)

\* the fields __init__ sets and the directory the process was started in;
\* heard records the latest on_mqtt_message call and n counts the calls
ServiceFresh ==
    /\ cwd = "launch"
    /\ message_history = <<>>
    /\ appended = 0
    /\ dispatch = <<>>
    /\ heard = [n |-> 0, payload |-> NotJson, u |-> 0, raised |-> FALSE,
                respond |-> FALSE, drew |-> FALSE]

InitServiceIdle == config = DefaultCriteria /\ ServiceFresh

\* an on_mqtt_message that waits for the response workers in flight
mutant_MqttMessage_joins(data, u) ==
    /\ pc = "session"
    /\ client = "bitnet"
    /\ mqtt.loop /\ mqtt.sock /\ is_connected(mqtt)
    /\ \A i \in 1..Len(dispatch) : dispatch[i].state = "done"
    /\ LET o == on_mqtt_message(config, message_history, appended, data, u)
       IN  /\ message_history' = o.history
           /\ appended' = o.appended
           /\ dispatch' = dispatch \o o.started
           /\ heard' = [n |-> heard.n + 1, payload |-> data, u |-> u,
                        raised |-> o.raised, respond |-> o.respond,
                        drew |-> o.drew]
    /\ ev' = Event("mqtt_message", 0)
    /\ UNCHANGED <<config, cwd, dev, mqtt, wire, call, workers, enrollVars,
                   validateVars, telemetry>>

\* network thread: on_mqtt_message runs for a payload of the subscribed
\* topic
MqttMessage(data, u) ==
    /\ pc = "session"
    /\ client = "bitnet"
    /\ mqtt.loop /\ mqtt.sock /\ is_connected(mqtt)
    /\ LET o == on_mqtt_message(config, message_history, appended, data, u)
       IN  /\ message_history' = o.history
           /\ appended' = o.appended
           /\ dispatch' = dispatch \o o.started
           /\ heard' = [n |-> heard.n + 1, payload |-> data, u |-> u,
                        raised |-> o.raised, respond |-> o.respond,
                        drew |-> o.drew]
    /\ ev' = Event("mqtt_message", 0)
    /\ UNCHANGED <<config, cwd, dev, mqtt, wire, call, workers, enrollVars,
                   validateVars, telemetry>>

\* response_worker i builds its prompt and calls generate_response, which
\* runs up to subprocess.run: with a valid setup it keeps os.getcwd() as
\* original_cwd and changes to bitnet_path; otherwise it returns None at
\* once and the thread ends
ResponseWorkerPrompt(i, valid) ==
    /\ pc = "session"
    /\ i \in 1..Len(dispatch)
    /\ dispatch[i].state = "started"
    /\ LET d == worker_prompt(dispatch[i], message_history)
       IN  IF valid
           THEN /\ dispatch' = [dispatch EXCEPT
                                  ![i] = [d EXCEPT !.original_cwd = cwd]]
                /\ cwd' = "bitnet_path"
           ELSE /\ dispatch' = [dispatch EXCEPT ![i] =
                        worker_generated(d, Run(FALSE, "returned", 0, <<>>))]
                /\ cwd' = cwd
    /\ ev' = Event("worker_prompt", i)
    /\ UNCHANGED <<config, message_history, appended, heard, dev, mqtt, wire,
                   call, workers, enrollVars, validateVars, telemetry>>

\* subprocess.run of response_worker i ends and generate_response returns
\* by way of os.chdir(original_cwd)
ResponseWorkerGenerated(i, run) ==
    /\ pc = "session"
    /\ i \in 1..Len(dispatch)
    /\ dispatch[i].state = "generating"
    /\ run.valid
    /\ dispatch' = [dispatch EXCEPT ![i] = worker_generated(@, run)]
    /\ cwd' = dispatch[i].original_cwd
    /\ ev' = Event("worker_generated", i)
    /\ UNCHANGED <<config, message_history, appended, heard, dev, mqtt, wire,
                   call, workers, enrollVars, validateVars, telemetry>>

\* an exception of response_worker i that ends the network thread too
mutant_ResponseWorkerRaise_stops_loop(i) ==
    /\ pc = "session"
    /\ i \in 1..Len(dispatch)
    /\ dispatch[i].state \in {"started", "delay"}
    /\ dispatch' = [dispatch EXCEPT ![i].state = "done"]
    /\ mqtt' = [mqtt EXCEPT !.loop = FALSE]
    /\ ev' = Event("worker_raise", i)
    /\ UNCHANGED <<config, message_history, appended, heard, cwd, dev, wire,
                   call, workers, enrollVars, validateVars, telemetry>>

\* a statement of response_worker i outside generate_response raises (the
\* template of the prompt, the publish call): the except clause of the
\* worker logs it and the thread ends
ResponseWorkerRaise(i) ==
    /\ pc = "session"
    /\ i \in 1..Len(dispatch)
    /\ dispatch[i].state \in {"started", "delay"}
    /\ dispatch' = [dispatch EXCEPT ![i].state = "done"]
    /\ ev' = Event("worker_raise", i)
    /\ UNCHANGED <<config, message_history, appended, heard, cwd, dev, mqtt,
                   wire, call, workers, enrollVars, validateVars, telemetry>>

\* the delay of response_worker i is over: publish_message(response_msg)
ResponseWorkerPublish(i) ==
    /\ pc = "session"
    /\ i \in 1..Len(dispatch)
    /\ dispatch[i].state = "delay"
    /\ Len(wire) < MaxWire
    /\ LET o == publish_message(dev, mqtt, "response")
       IN  /\ wire' = wire \o o.handed
           /\ dispatch' = [dispatch EXCEPT ![i] =
                    worker_publish(@, o, dev.mqtt_client /\ is_connected(mqtt))]
    /\ ev' = Event("worker_publish", i)
    /\ UNCHANGED <<config, message_history, appended, heard, cwd, dev, mqtt,
                   call, workers, enrollVars, validateVars, telemetry>>

\* the runs of the inference script
GeneratorRuns ==
    {Run(TRUE, "timeout", 0, <<>>),
     Run(TRUE, "error", 0, <<>>),
     Run(TRUE, "returned", 1, <<"o","k">>),
     Run(TRUE, "returned", 0, <<>>),
     Run(TRUE, "returned", 0, <<" ", LF>>),
     Run(TRUE, "returned", 0, <<" ","o","k", LF>>)}

\* what random.random() may return, in hundredths
Draws == {0, 50, 99}

\* the process of the service before start()
ServiceProcess ==
    /\ InitValidateIdle
    /\ InitSessionIdle
    /\ pc = "session"
    /\ client = "bitnet"
    /\ arg = <<>>
    /\ self = NoSelf
    /\ store = EmptyStore
    /\ tmpdir = NoTmp
    /\ outcome = NoOutcome
    /\ last = NoCall

\* the service under the criteria of create_default_config
InitService == ServiceProcess /\ InitServiceIdle

\* start() and the steps of the network thread around the message callback
ServiceSession ==
    \/ \E valid \in BOOLEAN, tcp \in BOOLEAN : BitnetStart(valid, tcp)
    \/ \E rc \in AckCodes : Ack(rc)
    \/ \E keep \in BOOLEAN : NetworkLoss(keep)

----------------------------------------------------------------------------
(* Runs that fill the history *)

\* payloads the service does not answer under the default criteria
HistoryPayloads ==
    {Payload(AllKeys, PEER_ID, "presence", <<"u","p">>), NotJson}

NextHistory ==
    \/ ServiceSession
    \/ \E data \in HistoryPayloads :
          heard.n < MaxHistoryMessages /\ MqttMessage(data, 0)

SpecHistory == InitService /\ [][NextHistory]_vars

----------------------------------------------------------------------------
(* Runs that decide about one message *)

PolicyCriteria ==
    {Criteria(CriteriaKeys, {"general", "question"}, filters, p, dflt) :
        filters \in {<<>>, << <<"z","z">>, <<"h","E","L","p">> >>},
        p \in {0, 50, 100},
        dflt \in BOOLEAN}
    \cup {Criteria(CriteriaKeys \ {"message_types"}, {}, filters, 100, TRUE) :
            filters \in {<<>>, << <<"z","z">>, <<"h","E","L","p">> >>}}
    \cup {Criteria({}, {}, <<>>, 0, FALSE)}

PolicyPayloads ==
    {Payload(AllKeys, id, type, content) :
        id \in {OWN_ID, PEER_ID},
        type \in {"general", "question", "presence", "response"},
        content \in {<<"H","e","l","p"," ","m","e">>, <<"h","i">>}}
    \cup {Payload({"device_id", "content"}, id, "", <<"H","e","l","p">>) :
            id \in {OWN_ID, PEER_ID}}
    \cup {NotJson, Payload({"device_id"}, PEER_ID, "general", <<"h","i">>)}

InitPolicy == ServiceProcess /\ config \in PolicyCriteria /\ ServiceFresh

NextPolicy ==
    \/ ServiceSession
    \/ \E data \in PolicyPayloads, u \in Draws :
          /\ heard.n < MaxPolicyMessages
          /\ Len(dispatch) < MaxDispatches
          /\ MqttMessage(data, u)

SpecPolicy == InitPolicy /\ [][NextPolicy]_vars

----------------------------------------------------------------------------
(* Runs that follow the response workers *)

DispatchPayloads ==
    {Payload(AllKeys, PEER_ID, "general", <<"h","i">>),
     Payload(AllKeys, OWN_ID, "response", <<"o","k">>),
     Payload({"device_id"}, PEER_ID, "general", <<"h","i">>),
     NotJson}

NextDispatch ==
    \/ ServiceSession
    \/ \E data \in DispatchPayloads :
          /\ heard.n < MaxDispatchMessages
          /\ Len(dispatch) < MaxDispatches
          /\ MqttMessage(data, 0)
    \/ \E i \in 1..MaxDispatches, valid \in BOOLEAN :
          ResponseWorkerPrompt(i, valid)
    \/ \E i \in 1..MaxDispatches, run \in GeneratorRuns :
          ResponseWorkerGenerated(i, run)
    \/ \E i \in 1..MaxDispatches : ResponseWorkerPublish(i)
    \/ \E i \in 1..MaxDispatches : ResponseWorkerRaise(i)

SpecDispatch == InitService /\ [][NextDispatch]_vars

\* the device id of the session runs
SessionId == <<"d","e","v","-","1">>

\* what register_device of the enhanced client leaves behind
EnrolledEnhanced ==
    {register_device(NewSelf(SessionId), [EmptyStore EXCEPT !.dir = TRUE],
                     Oct(0, 2, 2), post, ca) :
        post \in {TransportFailure,
                  Answer(200, FullDoc(SessionId, 1), EmptyPem),
                  Answer(200, NoPemDoc(SessionId), EmptyPem)},
        ca \in {TransportFailure, Answer(200, NoDoc, CaPem)}}

\* what register_device of the example client leaves behind
EnrolledExample ==
    {ex_register_device(NewSelf(DEVICE_ID), NoTmp, Oct(0, 2, 2), post, ca,
                        NoAnswer) :
        post \in {TransportFailure,
                  Answer(200, FullDoc(DEVICE_ID, 1), EmptyPem),
                  Answer(200, NoPemDoc(DEVICE_ID), EmptyPem)},
        ca \in {TransportFailure, Answer(200, NoDoc, CaPem)}}

InitSession ==
    /\ InitValidateIdle
    /\ InitSessionIdle
    /\ InitServiceIdle
    /\ pc = "session"
    /\ outcome = NoOutcome
    /\ \/ /\ client = "enhanced"
          /\ arg = SessionId
          /\ tmpdir = NoTmp
          /\ \E c \in EnrolledEnhanced :
                last = c /\ self = c.self /\ store = c.store
       \/ /\ client = "example"
          /\ arg = DEVICE_ID
          /\ store = EmptyStore
          /\ \E c \in EnrolledExample :
                last = c /\ self = c.self /\ tmpdir = c.tmp
       \/ /\ client = "bitnet"
          /\ arg = <<>>
          /\ self = NoSelf
          /\ store = EmptyStore
          /\ tmpdir = NoTmp
          /\ last = NoCall

NextSession ==
    \/ \E tcp \in BOOLEAN : EnhConnectMqtt(tcp)
    \/ EnhConnectReturn
    \/ \E tcp \in BOOLEAN : ExConnectMqtt(tcp)
    \/ ExConnectReturn
    \/ \E valid \in BOOLEAN, tcp \in BOOLEAN : BitnetStart(valid, tcp)
    \/ \E kind \in PublishKinds : EnhPublish(kind)
    \/ \E kind \in PublishKinds : ExPublish(kind)
    \/ BitnetSendManual
    \/ EnhDisconnect
    \/ ExCleanup
    \/ BitnetStopBegin
    \/ BitnetStopEnd
    \/ \E rc \in AckCodes : Ack(rc)
    \/ \E keep \in BOOLEAN : NetworkLoss(keep)
    \/ \E tcp \in BOOLEAN : LoopReconnect(tcp)
    \/ \E w \in WorkerIds : OnMessage(w)
    \/ \E w \in WorkerIds, ok \in BOOLEAN : WorkerGenerated(w, ok)
    \/ \E w \in WorkerIds : WorkerPublish(w)

SpecSession == InitSession /\ [][NextSession]_vars

----------------------------------------------------------------------------
(* The enhanced client with its telemetry loop *)

NextTelemetry ==
    \/ \E tcp \in BOOLEAN : EnhConnectMqtt(tcp)
    \/ EnhConnectReturn
    \/ EnhStartTelemetry
    \/ \E t \in 1..MaxTelemetryThreads : TelemetryStep(t)
    \/ EnhStopTelemetry
    \/ EnhDisconnect
    \/ \E rc \in AckCodes : Ack(rc)
    \/ NetworkLoss(FALSE)
    \/ \E tcp \in BOOLEAN : LoopReconnect(tcp)

\* a started thread is scheduled again and again, and a wait on
\* stop_telemetry returns when the event is set or the interval is over
SpecTelemetry ==
    /\ InitSession
    /\ [][NextTelemetry]_vars
    /\ WF_vars(\E t \in 1..MaxTelemetryThreads : TelemetryStep(t))

----------------------------------------------------------------------------
(* Enrollment runs of the two device clients *)

Init == InitEnroll /\ InitValidateIdle /\ InitSessionIdle /\ InitServiceIdle

Next ==
    \/ \E a \in MainArgs : EnhMainStart(a)
    \/ ExMainStart
    \/ Construct
    \/ \E um \in Umasks, post \in PostAnswers(self.device_id) :
          \E ca \in CaAnswersAfter(post),
             status \in StatusAnswersAfter(post, self.device_id) :
            EnhRegisterDevice(um, post, ca, status)
    \/ \E um \in Umasks, post \in PostAnswers(self.device_id) :
          \E ca \in CaAnswersAfter(post),
             status \in StatusAnswersAfter(post, self.device_id) :
            ExRegisterDevice(um, post, ca, status)
    \/ Exit

Spec == Init /\ [][Next]_vars

----------------------------------------------------------------------------
(* The device-id check on its own *)

InitValidate ==
    /\ InitEnroll
    /\ InitSessionIdle
    /\ InitServiceIdle
    /\ v_input \in ValInputs
    /\ v_result = "pending"

\* one call of ConfigManager.validate_device_id
Validate ==
    /\ v_result = "pending"
    /\ v_result' = BoolStr(validate_device_id(v_input))
    /\ UNCHANGED <<v_input, enrollVars, sessionVars, serviceVars, telemetry>>

NextValidate == Validate

SpecValidate == InitValidate /\ [][NextValidate]_vars

----------------------------------------------------------------------------
(* Properties *)

Count(seq, x) == Cardinality({i \in 1..Len(seq) : seq[i] = x})

\* a device id as the data model defines it: 3 to 50 characters, each in
\* [A-Za-z0-9_-]
WellFormedId(s) ==
    /\ Len(s) >= 3
    /\ Len(s) <= 50
    /\ \A i \in 1..Len(s) : InClass(s[i])

\* the store holds a complete, well-formed credential for device id
StoreHoldsCredential(st, id) ==
    /\ st.cert.exists
    /\ st.key.exists
    /\ st.ca.exists
    /\ st.reg.exists
    /\ st.reg.doc.keys = RegKeys
    /\ st.reg.doc.deviceId = id

\* a 200 body with full credential fields for device id
IsFullDoc(doc, id) ==
    /\ doc.keys = RegKeys
    /\ doc.deviceId = id
    /\ doc.cert # EmptyPem
    /\ doc.key # EmptyPem

IsConflict(c) == c.post.kind = "resp" /\ c.post.status = 409

IsFailure(c) ==
    \/ c.post.kind = "exc"
    \/ c.post.kind = "resp" /\ c.post.status \notin {200, 409}

\* the exceptions that report a registration that failed
EnrollmentFailedErrors ==
    {"Registration failed with status", "Network error during registration",
     "Registration failed", "requests.RequestException"}

\* the exceptions that report a conflict whose record cannot be retrieved
UnrecoverableErrors ==
    {"Device already registered but cannot retrieve existing data",
     "Device not registered", "Status check failed",
     "requests.RequestException"}

\* C1: two consecutive register_device calls of one device object that both
\* return a credential send at most one registration request between them
\* and return the same credential.
C1_EnrollIdempotent ==
    [][(/\ pc = "ready" /\ pc' = "ready"
        /\ client = "enhanced"
        /\ last.result.kind = "ok"
        /\ last'.result.kind = "ok")
       => /\ Count(last.sent, POST_REGISTER)
              + Count(last'.sent, POST_REGISTER) <= 1
          /\ last'.result = last.result]_vars

\* C2: a call of the enhanced client that starts with a complete,
\* well-formed credential for its device id in the store sends no HTTP
\* request, returns the stored record and leaves the store as it was.
C2_FastPath ==
    (last.variant = "enhanced"
     /\ StoreHoldsCredential(last.pre, last.device_id))
    => /\ last.sent = <<>>
       /\ last.result.kind = "ok"
       /\ asdict(last.result.reg) = last.pre.reg.doc
       /\ store = last.pre

C2_Witness ==
    /\ last.variant = "enhanced"
    /\ StoreHoldsCredential(last.pre, last.device_id)
    /\ last.pre.key.data # EmptyPem
    /\ last.result.kind = "ok"
    /\ last.sent = <<>>

\* C3: a run of main whose device id is not well formed ends with
\* "Invalid device ID", calls register_device never and leaves the store as
\* it found it; a run whose id is well formed never ends with
\* "Invalid device ID".
C3_InvalidIdNeverEnrolls ==
    client = "enhanced"
    => /\ ~WellFormedId(arg)
            => /\ outcome.msg = "Invalid device ID"
               /\ ~outcome.attempted
               /\ last = NoCall
               /\ store = outcome.store0
       /\ WellFormedId(arg) => outcome.msg # "Invalid device ID"

\* C4: validate_device_id returns true exactly for the strings of 3 to 50
\* characters that are all in [A-Za-z0-9_-], and false for every other
\* argument.
C4_ValidateExact ==
    v_result # "pending"
    => (v_result = "true"
        <=> (v_input.type = "str" /\ WellFormedId(v_input.str)))

\* C5: a call whose POST is answered 409 while the store holds no
\* registration record sends a status lookup.
C5_ConflictLooksUp ==
    (last.variant # "none" /\ IsConflict(last) /\ ~last.pre.reg.exists)
    => Count(last.sent, GET_STATUS) >= 1

\* C6: a call whose POST is answered 409 and that cannot retrieve the
\* existing registration (no readable registration.json for the enhanced
\* client, no 200 from the status lookup for the example client) raises the
\* conflict error, returns no credential and writes nothing.
C6_ConflictUnrecoverable ==
    (/\ IsConflict(last)
     /\ \/ /\ last.variant = "enhanced"
           /\ ~(last.pre.reg.exists /\ last.pre.reg.doc.keys = RegKeys)
        \/ /\ last.variant = "example"
           /\ ~(last.status.kind = "resp" /\ last.status.status = 200))
    => /\ last.result.kind = "error"
       /\ last.result.err \in UnrecoverableErrors
       /\ last.result.reg = NoReg
       /\ last.wrote = {}
       /\ last.store = last.pre
       /\ last.variant = "enhanced" => store = last.pre

C6_Witness ==
    /\ last.variant = "enhanced"
    /\ IsConflict(last)
    /\ ~last.pre.reg.exists
    /\ last.pre.dir
    /\ last.sent = <<POST_REGISTER>>
    /\ last.result.err
         = "Device already registered but cannot retrieve existing data"

\* C7: a call whose POST is answered 409 while the status endpoint holds a
\* valid record for the device returns that record and writes no
\* certificate file.
C7_ConflictReturnsRecord ==
    (/\ last.variant # "none"
     /\ IsConflict(last)
     /\ last.offer = Answer(200, StatusDoc(last.device_id), EmptyPem))
    => /\ last.result = Ok(ex_status_json(last.offer.doc))
       /\ last.wrote = {}

\* C8: after a call of the enhanced client whose POST was answered 200 with
\* full credential fields has returned, the store holds a non-empty device
\* certificate, private key and CA certificate and a registration.json
\* whose deviceId is the device id of the call.
C8_ScenarioA ==
    (/\ last.variant = "enhanced"
     /\ last.post.kind = "resp" /\ last.post.status = 200
     /\ IsFullDoc(last.post.doc, last.device_id)
     /\ last.result.kind = "ok")
    => /\ store.cert.exists /\ store.cert.data # EmptyPem
       /\ store.key.exists /\ store.key.data # EmptyPem
       /\ store.ca.exists /\ store.ca.data # EmptyPem
       /\ store.reg.exists /\ store.reg.doc.deviceId = last.device_id

\* C9: after a call that wrote a private key file, that file grants nothing
\* to group or others.
C9_KeyOwnerOnly ==
    /\ "device.key" \in last.wrote
            => GroupOtherBits(store.key.mode) = 0
    /\ "device_key.pem" \in last.wrote
            => GroupOtherBits(tmpdir.key.mode) = 0

\* C10: a call whose POST ends in a transport failure or in a status other
\* than 200 and 409 raises the registration-failed error after exactly one
\* registration request and writes nothing.
C10_FailureNoRetry ==
    (last.variant # "none" /\ IsFailure(last))
    => /\ last.result.kind = "error"
       /\ last.result.err \in EnrollmentFailedErrors
       /\ last.sent = <<POST_REGISTER>>
       /\ last.wrote = {}
       /\ last.store = last.pre
       /\ last.variant = "enhanced" => store = last.pre
       /\ tmpdir = last.tmp

C10_Witness ==
    /\ last.variant = "enhanced"
    /\ last.post.kind = "resp" /\ last.post.status = 500
    /\ last.result.err = "Registration failed with status"
    /\ last.pre.key.exists

\* a request that was made and did not succeed: a transport failure or a
\* status other than 200
RequestFailed(a) ==
    \/ a.kind = "exc"
    \/ a.kind = "resp" /\ a.status # 200

\* C11: a call in which a request failed (the registration POST other than
\* by a 409 conflict, the status lookup or the CA-certificate download)
\* ends in an error and returns no credential.
C11_NoSwallowedFailure ==
    (/\ last.variant # "none"
     /\ \/ IsFailure(last)
        \/ RequestFailed(last.ca)
        \/ RequestFailed(last.status))
    => /\ last.result.kind = "error"
       /\ last.result.reg = NoReg

\* C12: a credential that register_device of the enhanced client returns
\* has a non-empty certificate and private key, comes with a non-empty CA
\* certificate (in the object or as ca.crt in the store) and carries the
\* device id of the call.
C12_ReturnedCredentialValid ==
    (last.variant = "enhanced" /\ last.result.kind = "ok")
    => /\ last.result.reg.cert # EmptyPem
       /\ last.result.reg.key # EmptyPem
       /\ \/ last.self.ca_certificate_pem # EmptyPem
          \/ last.store.ca.exists /\ last.store.ca.data # EmptyPem
       /\ last.result.reg.deviceId = last.device_id

\* the result of a publish call that tells the caller, or the log, that
\* the session is not connected
NotConnectedResults == {"false", "raise", "not connected"}

\* C13: a publish call made while the session is not connected hands
\* nothing to the paho client and ends with the not-connected result.
C13_PublishNeedsConnected ==
    (call.op = "publish" /\ ~call.connected0)
    => /\ call.handed = <<>>
       /\ call.result \in NotConnectedResults

\* the session state of the enhanced client, read off its fields and the
\* position of its main thread
SessionStateOf(d, c) ==
    IF d.is_connected THEN "Connected"
    ELSE IF c.op = "connect_mqtt" /\ c.phase = "wait" THEN "Connecting"
    ELSE "Disconnected"

SpecifiedTransitions ==
    {<<"Disconnected", "Connecting">>, <<"Connecting", "Connected">>,
     <<"Connecting", "Disconnected">>, <<"Connected", "Disconnected">>}

\* C14: every step of the enhanced client that changes the session state
\* follows a specified transition or is a disconnect() ending in
\* Disconnected, and the session is Disconnected when disconnect() has
\* returned.
C14_SessionTransitions ==
    [][client = "enhanced"
       => /\ SessionStateOf(dev, call) # SessionStateOf(dev', call')
             => \/ ev'.kind = "stop"
                   /\ SessionStateOf(dev', call') = "Disconnected"
                \/ <<SessionStateOf(dev, call), SessionStateOf(dev', call')>>
                      \in SpecifiedTransitions
          /\ (call'.op = "stop" /\ call'.phase = "done")
             => SessionStateOf(dev', call') = "Disconnected"]_vars

\* C15: a connect_mqtt call of a device client that has returned success
\* saw a successful acknowledgment while it waited; without one it returns
\* failure.
C15_ConnectNeedsAck ==
    (/\ client \in {"enhanced", "example"}
     /\ call.op = "connect_mqtt"
     /\ call.phase = "done")
    => /\ call.result \in {"true", "false", "raise"}
       /\ call.result = "true" => call.acked

\* a file that holds a PEM text of the given kind
UsablePem(f, kind) == f.exists /\ f.data # EmptyPem /\ f.data.kind = kind

\* the device object holds a credential and its three PEM files are there
\* and well formed
CredentialUsable ==
    IF client = "enhanced"
    THEN /\ self.registration_data # NoReg
         /\ UsablePem(store.cert, "cert")
         /\ UsablePem(store.key, "key")
         /\ UsablePem(store.ca, "ca")
    ELSE /\ self.cert_files
         /\ UsablePem(tmpdir.cert, "cert")
         /\ UsablePem(tmpdir.key, "key")
         /\ UsablePem(tmpdir.ca, "ca")

\* C16: a connect_mqtt call of a device client whose credential is missing
\* or has a malformed PEM fails at once, hands no connect to the paho
\* client, opens no socket, starts no network thread and leaves the
\* session not connected.
C16_CredentialCheckedFirst ==
    (/\ client \in {"enhanced", "example"}
     /\ call.op = "connect_mqtt"
     /\ ~CredentialUsable)
    => /\ call.phase = "done"
       /\ call.result \in {"raise", "false"}
       /\ call.handed = <<>>
       /\ ~mqtt.sock
       /\ ~mqtt.loop
       /\ ~SessionConnected

C16_Witness ==
    /\ client = "enhanced"
    /\ call.op = "connect_mqtt"
    /\ self.registration_data # NoReg
    /\ certificates_exist(store)
    /\ ~CredentialUsable
    /\ call.result = "false"
    /\ wire = <<>>

\* what the connect callback hands to the paho client on a successful
\* acknowledgment
OnConnectCalls ==
    IF client = "bitnet" THEN <<"subscribe", "presence">>
    ELSE <<"subscribe">>

\* C17: the step that delivers a successful acknowledgment makes the
\* session connected, subscribes and, in the BitNet service, publishes one
\* presence message; the step that delivers a refusal hands nothing to the
\* paho client and leaves the session not connected.
C17_OnConnectSubscribes ==
    [][ev'.kind = "ack"
       => IF ev'.rc = 0
          THEN /\ wire' = wire \o OnConnectCalls
               /\ IF client = "enhanced" THEN dev'.is_connected
                  ELSE is_connected(mqtt')
          ELSE /\ wire' = wire
               /\ ~(IF client = "enhanced" THEN dev'.is_connected
                    ELSE is_connected(mqtt'))]_vars

C17_Witness ==
    /\ client = "bitnet"
    /\ ev = Event("ack", 0)
    /\ wire = <<"connect", "subscribe", "presence">>
    /\ is_connected(mqtt)

\* C18: once a disconnect was observed, no step other than a connect call
\* of the caller makes the session connected.
C18_NoAutoReconnect ==
    [][~(/\ mqtt.lost
         /\ mqtt'.lost
         /\ ~SessionConnected
         /\ IF client = "enhanced" THEN dev'.is_connected
            ELSE is_connected(mqtt'))]_vars

\* the session was closed by an earlier stop, or never had a paho client
AlreadyClosed(pre) ==
    \/ ~pre.dev.mqtt_client
    \/ pre.mqtt.state = "disconnecting" /\ ~pre.mqtt.loop

\* C19: a second or later stop / disconnect / cleanup on a session that is
\* already closed raises nothing, publishes no farewell, changes neither
\* the object nor the paho client and leaves the session not connected.
C19_CloseIdempotent ==
    (/\ call.op = "stop"
     /\ call.phase = "done"
     /\ call.stops >= 2
     /\ AlreadyClosed(call.pre))
    => /\ call.result # "raise"
       /\ call.handed = <<>>
       /\ dev = call.pre.dev
       /\ mqtt = call.pre.mqtt
       /\ ~SessionConnected

C19_Witness ==
    /\ client = "bitnet"
    /\ call.op = "stop"
    /\ call.phase = "done"
    /\ call.stops = 2
    /\ AlreadyClosed(call.pre)
    /\ wire = <<"connect", "subscribe", "presence", "goodbye">>

\* C20: no response is published after the farewell message of a stop
\* (until the service connects anew).
C20_FarewellIsLast ==
    \A i \in 1..Len(wire) : \A j \in i..Len(wire) :
        (wire[i] = "goodbye" /\ wire[j] = "response")
        => \E k \in i..j : wire[k] = "connect"

\* C21: the history never holds more than 100 messages, and a message
\* appended to a full history evicts exactly the oldest one: the others
\* move up one place and the new message is the last.
C21_HistoryBounded ==
    [][/\ Len(message_history') <= HISTORY_CAP
       /\ (Len(message_history) = HISTORY_CAP /\ appended' = appended + 1)
          => /\ Len(message_history') = HISTORY_CAP
             /\ SubSeq(message_history', 1, HISTORY_CAP - 1)
                    = Tail(message_history)
             /\ message_history'[HISTORY_CAP].id = appended']_vars

C21_Witness ==
    /\ Len(message_history) = HISTORY_CAP
    /\ appended = HISTORY_CAP + 1
    /\ message_history[1].id = 2

HistoryLength == IF appended < HISTORY_CAP THEN appended ELSE HISTORY_CAP

\* C22: after k appends the history is the last min(k, 100) appended
\* messages, oldest first.
C22_HistoryFifo ==
    /\ Len(message_history) = HistoryLength
    /\ \A i \in 1..Len(message_history) :
          message_history[i].id = appended - HistoryLength + i

C22_Witness ==
    /\ appended = HISTORY_CAP + 2
    /\ message_history[1].id = 3
    /\ message_history[HISTORY_CAP].id = HISTORY_CAP + 2

\* the message the latest on_mqtt_message call made of its payload
HeardMessage == from_dict(heard.payload, appended).message

\* the latest on_mqtt_message call got a message out of its payload
HeardWellFormed == heard.n > 0 /\ ~heard.raised

AllowedTypes == get(config, "message_types", {"general"})

ContentFilters == get(config, "content_filters", <<>>)

FilterMatches ==
    \E k \in 1..Len(ContentFilters) :
        str_in(lower(ContentFilters[k]), lower(HeardMessage.content))

\* a response_worker was started for the message of the latest call
DispatchStarted ==
    /\ Len(dispatch) > 0
    /\ dispatch[Len(dispatch)].message = HeardMessage

\* C24: a message whose sender is the service's own device id is rejected
\* whatever the criteria are, and no response_worker is ever started for
\* a message of the service itself.
C24_SelfRejected ==
    /\ (HeardWellFormed /\ HeardMessage.device_id = OWN_ID)
       => ~heard.respond
    /\ \A i \in 1..Len(dispatch) : dispatch[i].message.device_id # OWN_ID

C24_Witness ==
    /\ HeardWellFormed
    /\ HeardMessage.device_id = OWN_ID
    /\ HeardMessage.message_type \in AllowedTypes
    /\ FilterMatches
    /\ get(config, "probability", 100) = 100
    /\ get(config, "default_respond", TRUE)
    /\ ~heard.respond
    /\ dispatch = <<>>

\* C25: a message whose type is not among the allowed types is rejected,
\* whatever its content, the probability and the default-respond flag.
C25_TypeRejected ==
    (HeardWellFormed /\ HeardMessage.message_type \notin AllowedTypes)
    => (~heard.respond /\ ~DispatchStarted)

C25_Witness ==
    /\ HeardWellFormed
    /\ HeardMessage.device_id = PEER_ID
    /\ HeardMessage.message_type = "presence"
    /\ FilterMatches
    /\ get(config, "probability", 100) = 100
    /\ get(config, "default_respond", TRUE)
    /\ ~heard.respond
    /\ dispatch = <<>>

\* C26: a message of another sender and of an allowed type whose content
\* holds one of the content filters, letter case aside, is accepted and a
\* response_worker is started for it, whatever the probability (0.0
\* included) and the default-respond flag are.
C26_FilterAccepts ==
    (/\ HeardWellFormed
     /\ HeardMessage.device_id # OWN_ID
     /\ HeardMessage.message_type \in AllowedTypes
     /\ FilterMatches)
    => (heard.respond /\ DispatchStarted)

C26_Witness ==
    /\ HeardWellFormed
    /\ HeardMessage.device_id = PEER_ID
    /\ HeardMessage.message_type = "general"
    /\ HeardMessage.content = <<"H","e","l","p"," ","m","e">>
    /\ ContentFilters = << <<"z","z">>, <<"h","E","L","p">> >>
    /\ get(config, "probability", 100) = 0
    /\ ~get(config, "default_respond", TRUE)
    /\ heard.u = 99
    /\ heard.respond
    /\ DispatchStarted

\* the uniform draw of the latest call succeeds: it falls below the
\* configured probability
DrawSucceeds == heard.u < get(config, "probability", 100)

\* C27: a message of another sender, of an allowed type and matching no
\* content filter is accepted when the draw succeeds, and is otherwise
\* accepted or rejected as the default-respond flag says.
C27_ProbabilityThenDefault ==
    (/\ HeardWellFormed
     /\ HeardMessage.device_id # OWN_ID
     /\ HeardMessage.message_type \in AllowedTypes
     /\ ~FilterMatches)
    => (heard.respond = (DrawSucceeds \/ get(config, "default_respond", TRUE)))

\* C28: the rules are applied in the order sender, type, content filter,
\* probability, default: an own message that matches a filter is rejected,
\* a message of a type not allowed that matches a filter is rejected, and
\* a filter match accepts without a draw; a draw is made only for a
\* message that passed the three tests before it.
C28_EvaluationOrder ==
    HeardWellFormed =>
        /\ (HeardMessage.device_id = OWN_ID /\ FilterMatches)
           => (~heard.respond /\ ~heard.drew)
        /\ (HeardMessage.message_type \notin AllowedTypes /\ FilterMatches)
           => (~heard.respond /\ ~heard.drew)
        /\ (/\ HeardMessage.device_id # OWN_ID
            /\ HeardMessage.message_type \in AllowedTypes
            /\ FilterMatches)
           => (heard.respond /\ ~heard.drew)
        /\ heard.drew
           => /\ HeardMessage.device_id # OWN_ID
              /\ HeardMessage.message_type \in AllowedTypes
              /\ ~FilterMatches

C28_Witness ==
    /\ HeardWellFormed
    /\ HeardMessage.device_id = OWN_ID
    /\ HeardMessage.message_type = "presence"
    /\ HeardMessage.content = <<"H","e","l","p"," ","m","e">>
    /\ ContentFilters = << <<"z","z">>, <<"h","E","L","p">> >>
    /\ get(config, "probability", 100) = 50
    /\ heard.u = 99
    /\ ~heard.respond
    /\ ~heard.drew

\* C23: the context a response_worker builds its prompt from is the
\* history as it was, without the triggering message, when that message
\* was found eligible; messages appended or evicted later do not change it.
C23_SnapshotAtEligibility ==
    \A i \in 1..Len(dispatch) :
        dispatch[i].state # "started"
        => dispatch[i].context = dispatch[i].seen

\* the run of the inference script ended in a timeout, another exception,
\* a non-zero exit or an output of white space only
GenerationFailed(run) ==
    /\ run.valid
    /\ \/ run.how \in {"timeout", "error"}
       \/ run.how = "returned" /\ run.returncode # 0
       \/ /\ run.how = "returned"
          /\ \A k \in 1..Len(run.stdout) : run.stdout[k] \in {" ", LF}

GenerationSucceeded(run) ==
    /\ run.valid
    /\ run.how = "returned"
    /\ run.returncode = 0
    /\ \E k \in 1..Len(run.stdout) : run.stdout[k] \notin {" ", LF}

\* C29: a response_worker whose generation ended in a timeout, a non-zero
\* exit, an exception or an empty output has called the generator exactly
\* once, ends without a delay and never publishes a response.
C29_FailedGenerationSilent ==
    \A i \in 1..Len(dispatch) :
        GenerationFailed(dispatch[i].run)
        => /\ dispatch[i].calls = 1
           /\ dispatch[i].state = "done"
           /\ dispatch[i].published = <<>>

C29_Witness ==
    /\ Len(dispatch) = 2
    /\ dispatch[1].run.how = "timeout"
    /\ dispatch[2].run.how = "returned"
    /\ dispatch[2].run.returncode = 0
    /\ dispatch[2].run.stdout = <<" ", LF>>
    /\ \A i \in 1..2 : dispatch[i].state = "done" /\ dispatch[i].calls = 1
    /\ is_connected(mqtt) /\ mqtt.sock
    /\ wire = <<"connect", "subscribe", "presence">>

\* C30: a response_worker whose generation succeeded publishes exactly one
\* message: of type response, from the service's own device id, carrying
\* the generated text.
C30_SuccessPublishesOnce ==
    \A i \in 1..Len(dispatch) :
        (dispatch[i].state = "done" /\ GenerationSucceeded(dispatch[i].run))
        => dispatch[i].published
             = <<Message(0, OWN_ID, "response", <<"o","k">>)>>

\* the step is one of a response_worker thread
WorkerStep ==
    ev'.kind \in {"worker_prompt", "worker_generated", "worker_publish",
                  "worker_raise"}

\* response_worker i has ended without a response: timeout, failure or
\* exception
DispatchFailed(i) ==
    /\ dispatch[i].state = "done"
    /\ dispatch[i].published = <<>>
    /\ ~dispatch[i].linked

\* C31: no step of a response_worker, a failing one included, changes the
\* session (service object, paho client and its network thread, the call
\* of the main thread) or the history; and after a worker has failed, the
\* message callback still appends a well-formed message as the last of
\* the history and starts a worker for it when the policy accepts it.
C31_DispatchErrorsLocal ==
    [][/\ WorkerStep
          => UNCHANGED <<dev, mqtt, call, message_history, appended, heard>>
       /\ (/\ ev'.kind = "mqtt_message"
           /\ \E i \in 1..Len(dispatch) : DispatchFailed(i)
           /\ ~heard'.raised)
          => /\ appended' = appended + 1
             /\ message_history'[Len(message_history')].id = appended'
             /\ heard'.respond => Len(dispatch') = Len(dispatch) + 1]_vars

C31_Witness ==
    /\ ev.kind = "mqtt_message"
    /\ Len(dispatch) = 2
    /\ DispatchFailed(1)
    /\ dispatch[1].run.how = "timeout"
    /\ dispatch[2].state = "started"
    /\ dispatch[2].message.id = 2
    /\ mqtt.loop /\ mqtt.sock /\ is_connected(mqtt)

\* C32: whenever the network thread of the connected service has a payload
\* to hand to on_mqtt_message, the callback can run to its end, whatever
\* the response workers in flight are doing: generating, waiting out their
\* delay or not yet running.
C32_ReceiptNotBlocked ==
    (/\ pc = "session"
     /\ client = "bitnet"
     /\ mqtt.loop /\ mqtt.sock /\ is_connected(mqtt))
    => \A data \in DispatchPayloads : ENABLED MqttMessage(data, 0)

C32_Witness ==
    /\ ev.kind = "mqtt_message"
    /\ Len(dispatch) = 2
    /\ dispatch[1].state = "generating"
    /\ dispatch[2].state = "started"
    /\ dispatch[2].message = message_history[2]
    /\ appended = 2

\* C33: a response_worker enters its delay only from a generator call that
\* succeeded, and publishes only from its delay; workers of different
\* messages end in either order.
C33_GenerateDelayPublish ==
    [][\A i \in 1..Len(dispatch) :
          /\ (dispatch'[i].state = "delay" /\ dispatch[i].state # "delay")
             => /\ dispatch[i].state = "generating"
                /\ GenerationSucceeded(dispatch'[i].run)
          /\ (dispatch'[i].published # <<>> /\ dispatch[i].published = <<>>)
             => /\ dispatch[i].state = "delay"
                /\ GenerationSucceeded(dispatch[i].run)
                /\ dispatch'[i].state = "done"]_vars

C33_Witness ==
    /\ Len(dispatch) = 2
    /\ dispatch[1].state = "generating"
    /\ dispatch[2].state = "done"
    /\ dispatch[2].published # <<>>
    /\ GenerationSucceeded(dispatch[2].run)
    /\ ev.kind = "worker_publish"

\* C34: once connect_mqtt of the enhanced client has returned failure after
\* its wait for the acknowledgment ran out, an acknowledgment that arrives
\* later, with no new connect_mqtt call, does not make the client connected.
C34_NoLateConnect ==
    [][(/\ client = "enhanced"
        /\ call.op = "connect_mqtt"
        /\ call.phase = "done"
        /\ call.result = "false"
        /\ mqtt.pending
        /\ ~mqtt.lost
        /\ ev'.kind = "ack")
       => ~dev'.is_connected]_vars

\* C35: the context a response_worker hands to _generate_prompt holds only
\* messages received before the message that triggered the worker, and
\* never that message itself.
C35_ContextBeforeTrigger ==
    \A i \in 1..Len(dispatch) :
        \A k \in 1..Len(dispatch[i].context) :
            dispatch[i].context[k].id < dispatch[i].message.id

\* C36: a payload that is no JSON object or lacks device_id or content is
\* dropped: the callback leaves the history, the workers, what was handed
\* to the paho client and the session as they were, and the session is
\* still connected.
C36_MalformedDropped ==
    [][(/\ ev'.kind = "mqtt_message"
        /\ \/ ~heard'.payload.json
           \/ ~({"device_id", "content"} \subseteq heard'.payload.keys))
       => /\ UNCHANGED <<message_history, appended, dispatch, wire, dev,
                         mqtt>>
          /\ mqtt'.loop /\ is_connected(mqtt')]_vars

C36_Witness ==
    /\ ev.kind = "mqtt_message"
    /\ heard.payload.json
    /\ heard.payload.keys = {"device_id"}
    /\ heard.raised
    /\ Len(message_history) = 1
    /\ Len(dispatch) = 1
    /\ dispatch[1].state = "generating"
    /\ wire = <<"connect", "subscribe", "presence">>

\* C37: when every response_worker that was started has ended, the working
\* directory of the process is the one it was started in.
C37_CwdPreserved ==
    (\A i \in 1..Len(dispatch) : dispatch[i].state = "done")
    => cwd = "launch"

\* the criteria of create_default_config and those _should_respond takes
\* when the configuration has none
DefaultResponseCriteria ==
    config \in {DefaultCriteria, Criteria({}, {}, <<>>, 0, FALSE)}

\* the types of the messages a service publishes by itself
ServiceTypes == {"response", "presence"}

C39_ProbabilityExtremes ==
    (/\ HeardWellFormed
     /\ HeardMessage.device_id # OWN_ID
     /\ HeardMessage.message_type \in AllowedTypes
     /\ ~FilterMatches)
    => /\ get(config, "probability", 100) = 0 => ~heard.respond
       /\ get(config, "probability", 100) = 100
          => heard.respond = get(config, "default_respond", TRUE)

\* telemetry threads that have not left _telemetry_loop
TelemetryAlive ==
    {t \in DOMAIN telemetry.threads : telemetry.threads[t] # "exited"}

\* the latest call of the main thread is a disconnect() that has returned
DisconnectReturned ==
    client = "enhanced" /\ call.op = "stop" /\ call.phase = "done"

\* C40: at most one telemetry thread of the enhanced client is alive at any
\* time, a start_telemetry_loop made while one is alive starts nothing,
\* no telemetry thread gets a publish accepted while the latest call of the
\* main thread is a returned disconnect(), and after a returned
\* disconnect() every telemetry thread eventually has left its loop
C40_TelemetryLoop ==
    /\ [](Cardinality(TelemetryAlive) <= 1)
    /\ [][/\ (ev'.kind = "start_telemetry" /\ TelemetryAlive # {})
              => telemetry' = telemetry
          /\ (ev'.kind = "telemetry_publish" /\ ev'.rc = 0)
              => ~DisconnectReturned]_vars
    /\ (DisconnectReturned ~> TelemetryAlive = {})

\* a disconnect() has returned after the telemetry loop had published,
\* and the loop's thread has exited
C40_Witness ==
    /\ DisconnectReturned
    /\ telemetry.threads # <<>>
    /\ TelemetryAlive = {}
    /\ \E i \in DOMAIN wire : wire[i] = "telemetry"

====
